---- MODULE Spec2Model ----
(***************************************************************************)
(* A model of the Reactive language runtime: the RXB1 bytecode text format *)
(* (serializer in old/rust/bytecode.rs, deserializer in src/bytecode.rs)   *)
(* and the stack machine of src/vm.rs.                                     *)
(*                                                                         *)
(* Text is modelled as sequences of Unicode code points (naturals), so     *)
(* that quoting, tokenizing and number formatting are computed character   *)
(* by character as the code does.                                          *)
(***************************************************************************)
EXTENDS Integers, Sequences, FiniteSets, TLC

VARIABLES
    \* ---- bytecode round trip (serialize_instructions / deserialize_instructions)
    sinput,     \* the instruction vector handed to serialize_instructions
    stext,      \* the text handed to deserialize_instructions
    sresult,    \* what deserialize_instructions returned
    spc,        \* position of the round-trip driver
    \* ---- the stack machine (struct VM in src/vm.rs)
    stack,            \* VM.stack: the operand stack
    environment,      \* VM.environment: the mutable bindings, name -> Type
    immutable_stack,  \* VM.immutable_stack: the immutable scopes, innermost last
    heap,             \* VM.heap: the struct instances, StructRef(id) is heap[id + 1]
    struct_defs,      \* VM.struct_defs: name -> field list
    code,             \* VM.code while a nested vector runs (see Streaming)
    pointer,          \* VM.pointer
    labels,           \* VM.labels: label name -> index in VM.code
    activations,      \* the call_function activations in progress, innermost last
    status,           \* "idle", "running", "halted" (run returned) or "panicked"
    error,            \* which panic ended the run
    instr,            \* the instruction run() fetched last
    steps,            \* how many instructions run() has fetched
    output,           \* what print!/println! have written, in order (the numbers, and
                      \* the lines of runtime_error), then the exit code of a failed run
    family,           \* the set of programs the run is drawn from (see Alphabet)
    bound_here,       \* history: per scope on immutable_stack, what StoreImmutable
                      \* has bound in it since it was pushed, name -> value
    \* ---- the arenas of the bytecode machine (struct VM in src/vm/mod.rs)
    array_heap,       \* VM.array_heap: the arrays, ArrayRef(id) is array_heap[id + 1]
    array_immutables, \* VM.array_immutables: per array, the indices of its immutable cells
    vec_heap,         \* VM.vec_heap: the growable arrays, VecRef(id) is vec_heap[id + 1]
    vec_immutables,   \* VM.vec_immutables: per vec, the indices of its immutable cells
    buffer_heap,      \* VM.buffer_heap: the character buffers, BufferRef(id) is buffer_heap[id + 1]
    \* ---- the process around the engine
    tty,              \* the terminal on fd 0, the input state behind its lock
                      \* (unix_state in src/vm/native.rs), the exit hooks and the process
    cli,              \* main of src/main.rs: the command line and what main did with it
    memory,           \* the largest number of elements the allocator grants to one
                      \* Vec::with_capacity (what the machine has left)
    random_state,     \* the order in which the iterator of a HashMap yields its keys
                      \* (std's RandomState: not the same from one process or map to
                      \* the next), as a sequence of the field names
    captured          \* history: the value `a` had when StoreReactive last bound a
                      \* reactive, its kind, and whether an immutable scope held it (None:
                      \* `a` had no integer value then)

svars == <<sinput, stext, sresult, spc>>

hvars == <<array_heap, array_immutables, vec_heap, vec_immutables, buffer_heap>>

pvars == <<tty, cli, random_state, memory>>

vmvars == <<stack, environment, immutable_stack, heap, struct_defs, code, pointer, labels,
            activations, status, error, instr, steps, output, family, bound_here,
            captured, hvars>>

vars == <<svars, vmvars, pvars>>

(***************************************************************************)
(* Characters                                                              *)
(***************************************************************************)
DQUOTE    == 34
BACKSLASH == 92
LF        == 10
CR        == 13
TAB       == 9
SPACE     == 32
LBRACE    == 123
RBRACE    == 125
PLUS      == 43
MINUS     == 45
LOWER_N   == 110
LOWER_R   == 114
LOWER_T   == 116
LOWER_U   == 117

\* char::is_whitespace (the White_Space property)
is_whitespace(c) ==
    \/ c \in 9..13
    \/ c \in {32, 133, 160, 5760, 8232, 8233, 8239, 8287, 12288}
    \/ c \in 8192..8202

\* char::is_control (general category Cc)
is_control(c) == c \in 0..31 \/ c \in 127..159

\* char::from_u32 succeeds on Unicode scalar values only
is_scalar(v) == (v \in 0..55295) \/ (v \in 57344..1114111)

\* i32::MAX; i32::MIN is -I32_MAX - 1. The model's integers are 32 bits wide,
\* so u32 and usize operands are represented up to UNSIGNED_MAX only.
I32_MAX == 2147483647
I32_MIN == -I32_MAX - 1
UNSIGNED_MAX == 2147483647

\* const MAGIC: &str = "RXB1"
MAGIC == <<82,88,66,49>>

\* the keywords write_instruction, write_struct_field and write_reactive_* emit
WriteKw ==
       ("Push" :> <<80,117,115,104>>)
    @@ ("PushChar" :> <<80,117,115,104,67,104,97,114>>)
    @@ ("Load" :> <<76,111,97,100>>)
    @@ ("Store" :> <<83,116,111,114,101>>)
    @@ ("StoreImmutable" :> <<83,116,111,114,101,73,109,109,117,116,97,98,108,101>>)
    @@ ("StoreReactive" :> <<83,116,111,114,101,82,101,97,99,116,105,118,101>>)
    @@ ("Add" :> <<65,100,100>>)
    @@ ("Sub" :> <<83,117,98>>)
    @@ ("Mul" :> <<77,117,108>>)
    @@ ("Div" :> <<68,105,118>>)
    @@ ("Modulo" :> <<77,111,100,117,108,111>>)
    @@ ("Greater" :> <<71,114,101,97,116,101,114>>)
    @@ ("Less" :> <<76,101,115,115>>)
    @@ ("GreaterEqual" :> <<71,114,101,97,116,101,114,69,113,117,97,108>>)
    @@ ("LessEqual" :> <<76,101,115,115,69,113,117,97,108>>)
    @@ ("Equal" :> <<69,113,117,97,108>>)
    @@ ("NotEqual" :> <<78,111,116,69,113,117,97,108>>)
    @@ ("And" :> <<65,110,100>>)
    @@ ("Or" :> <<79,114>>)
    @@ ("Label" :> <<76,97,98,101,108>>)
    @@ ("Jump" :> <<74,117,109,112>>)
    @@ ("JumpIfZero" :> <<74,117,109,112,73,102,90,101,114,111>>)
    @@ ("Return" :> <<82,101,116,117,114,110>>)
    @@ ("ArrayNew" :> <<65,114,114,97,121,78,101,119>>)
    @@ ("ArrayGet" :> <<65,114,114,97,121,71,101,116>>)
    @@ ("ArrayLValue" :> <<65,114,114,97,121,76,86,97,108,117,101>>)
    @@ ("StoreIndex" :> <<83,116,111,114,101,73,110,100,101,120>>)
    @@ ("StoreIndexReactive" :> <<83,116,111,114,101,73,110,100,101,120,82,101,97,99,116,105,118,101>>)
    @@ ("StoreStruct" :> <<83,116,111,114,101,83,116,114,117,99,116>>)
    @@ ("NewStruct" :> <<78,101,119,83,116,114,117,99,116>>)
    @@ ("FieldGet" :> <<70,105,101,108,100,71,101,116>>)
    @@ ("FieldSet" :> <<70,105,101,108,100,83,101,116>>)
    @@ ("FieldSetReactive" :> <<70,105,101,108,100,83,101,116,82,101,97,99,116,105,118,101>>)
    @@ ("FieldLValue" :> <<70,105,101,108,100,76,86,97,108,117,101>>)
    @@ ("StoreThrough" :> <<83,116,111,114,101,84,104,114,111,117,103,104>>)
    @@ ("StoreThroughReactive" :> <<83,116,111,114,101,84,104,114,111,117,103,104,82,101,97,99,116,105,118,101>>)
    @@ ("StoreThroughImmutable" :> <<83,116,111,114,101,84,104,114,111,117,103,104,73,109,109,117,116,97,98,108,101>>)
    @@ ("StoreFunction" :> <<83,116,111,114,101,70,117,110,99,116,105,111,110>>)
    @@ ("Call" :> <<67,97,108,108>>)
    @@ ("PushImmutableContext" :> <<80,117,115,104,73,109,109,117,116,97,98,108,101,67,111,110,116,101,120,116>>)
    @@ ("PopImmutableContext" :> <<80,111,112,73,109,109,117,116,97,98,108,101,67,111,110,116,101,120,116>>)
    @@ ("ClearImmutableContext" :> <<67,108,101,97,114,73,109,109,117,116,97,98,108,101,67,111,110,116,101,120,116>>)
    @@ ("Print" :> <<80,114,105,110,116>>)
    @@ ("Println" :> <<80,114,105,110,116,108,110>>)
    @@ ("Assert" :> <<65,115,115,101,114,116>>)
    @@ ("Error" :> <<69,114,114,111,114>>)
    @@ ("Import" :> <<73,109,112,111,114,116>>)
    @@ ("Cast" :> <<67,97,115,116>>)
    @@ ("Field" :> <<70,105,101,108,100>>)
    @@ ("None" :> <<78,111,110,101>>)
    @@ ("Mutable" :> <<77,117,116,97,98,108,101>>)
    @@ ("Immutable" :> <<73,109,109,117,116,97,98,108,101>>)
    @@ ("Reactive" :> <<82,101,97,99,116,105,118,101>>)
    @@ ("Int" :> <<73,110,116>>)
    @@ ("Char" :> <<67,104,97,114>>)

\* the keywords parse_instruction and parse_field match on
ParseKw ==
       ("Push" :> <<80,117,115,104>>)
    @@ ("PushChar" :> <<80,117,115,104,67,104,97,114>>)
    @@ ("Load" :> <<76,111,97,100>>)
    @@ ("Store" :> <<83,116,111,114,101>>)
    @@ ("StoreImmutable" :> <<83,116,111,114,101,73,109,109,117,116,97,98,108,101>>)
    @@ ("StoreReactive" :> <<83,116,111,114,101,82,101,97,99,116,105,118,101>>)
    @@ ("Add" :> <<65,100,100>>)
    @@ ("Sub" :> <<83,117,98>>)
    @@ ("Mul" :> <<77,117,108>>)
    @@ ("Div" :> <<68,105,118>>)
    @@ ("Modulo" :> <<77,111,100,117,108,111>>)
    @@ ("Greater" :> <<71,114,101,97,116,101,114>>)
    @@ ("Less" :> <<76,101,115,115>>)
    @@ ("GreaterEqual" :> <<71,114,101,97,116,101,114,69,113,117,97,108>>)
    @@ ("LessEqual" :> <<76,101,115,115,69,113,117,97,108>>)
    @@ ("Equal" :> <<69,113,117,97,108>>)
    @@ ("NotEqual" :> <<78,111,116,69,113,117,97,108>>)
    @@ ("And" :> <<65,110,100>>)
    @@ ("Or" :> <<79,114>>)
    @@ ("Label" :> <<76,97,98,101,108>>)
    @@ ("Jump" :> <<74,117,109,112>>)
    @@ ("JumpIfZero" :> <<74,117,109,112,73,102,90,101,114,111>>)
    @@ ("Return" :> <<82,101,116,117,114,110>>)
    @@ ("ArrayNew" :> <<65,114,114,97,121,78,101,119>>)
    @@ ("ArrayGet" :> <<65,114,114,97,121,71,101,116>>)
    @@ ("ArrayLValue" :> <<65,114,114,97,121,76,86,97,108,117,101>>)
    @@ ("StoreIndex" :> <<83,116,111,114,101,73,110,100,101,120>>)
    @@ ("StoreIndexReactive" :> <<83,116,111,114,101,73,110,100,101,120,82,101,97,99,116,105,118,101>>)
    @@ ("StoreStruct" :> <<83,116,111,114,101,83,116,114,117,99,116>>)
    @@ ("NewStruct" :> <<78,101,119,83,116,114,117,99,116>>)
    @@ ("FieldGet" :> <<70,105,101,108,100,71,101,116>>)
    @@ ("FieldSet" :> <<70,105,101,108,100,83,101,116>>)
    @@ ("FieldSetReactive" :> <<70,105,101,108,100,83,101,116,82,101,97,99,116,105,118,101>>)
    @@ ("FieldLValue" :> <<70,105,101,108,100,76,86,97,108,117,101>>)
    @@ ("StoreThrough" :> <<83,116,111,114,101,84,104,114,111,117,103,104>>)
    @@ ("StoreThroughReactive" :> <<83,116,111,114,101,84,104,114,111,117,103,104,82,101,97,99,116,105,118,101>>)
    @@ ("StoreThroughImmutable" :> <<83,116,111,114,101,84,104,114,111,117,103,104,73,109,109,117,116,97,98,108,101>>)
    @@ ("StoreFunction" :> <<83,116,111,114,101,70,117,110,99,116,105,111,110>>)
    @@ ("Call" :> <<67,97,108,108>>)
    @@ ("PushImmutableContext" :> <<80,117,115,104,73,109,109,117,116,97,98,108,101,67,111,110,116,101,120,116>>)
    @@ ("PopImmutableContext" :> <<80,111,112,73,109,109,117,116,97,98,108,101,67,111,110,116,101,120,116>>)
    @@ ("ClearImmutableContext" :> <<67,108,101,97,114,73,109,109,117,116,97,98,108,101,67,111,110,116,101,120,116>>)
    @@ ("Print" :> <<80,114,105,110,116>>)
    @@ ("Println" :> <<80,114,105,110,116,108,110>>)
    @@ ("Assert" :> <<65,115,115,101,114,116>>)
    @@ ("Error" :> <<69,114,114,111,114>>)
    @@ ("Import" :> <<73,109,112,111,114,116>>)
    @@ ("Cast" :> <<67,97,115,116>>)
    @@ ("Field" :> <<70,105,101,108,100>>)
    @@ ("None" :> <<78,111,110,101>>)
    @@ ("Mutable" :> <<77,117,116,97,98,108,101>>)
    @@ ("Immutable" :> <<73,109,109,117,116,97,98,108,101>>)
    @@ ("Reactive" :> <<82,101,97,99,116,105,118,101>>)
    @@ ("Int" :> <<73,110,116>>)
    @@ ("Char" :> <<67,104,97,114>>)

(***************************************************************************)
(* Sequence helpers                                                        *)
(***************************************************************************)
RECURSIVE Flatten(_)
Flatten(ss) == IF ss = <<>> THEN <<>> ELSE Head(ss) \o Flatten(Tail(ss))

\* Vec<String>::join("\n")
RECURSIVE JoinLines(_)
JoinLines(ls) ==
    IF ls = <<>> THEN <<>>
    ELSE IF Len(ls) = 1 THEN ls[1]
    ELSE ls[1] \o <<LF>> \o JoinLines(Tail(ls))

(***************************************************************************)
(* Number formatting: format!("{n}") and format!("{:x}")                   *)
(***************************************************************************)
DigitChar(d) == IF d < 10 THEN 48 + d ELSE 97 + (d - 10)

RECURSIVE FormatRadix(_, _)
FormatRadix(n, radix) ==
    IF n < radix THEN <<DigitChar(n)>>
    ELSE FormatRadix(n \div radix, radix) \o <<DigitChar(n % radix)>>

\* the decimal digits of a negative number, most significant first
RECURSIVE FormatNegative(_)
FormatNegative(n) ==
    LET q == (n + 9) \div 10      \* n / 10 rounded towards zero
        d == q * 10 - n           \* the last digit
    IN IF q = 0 THEN <<DigitChar(d)>> ELSE FormatNegative(q) \o <<DigitChar(d)>>

format_int(n) == IF n < 0 THEN <<MINUS>> \o FormatNegative(n) ELSE FormatRadix(n, 10)

format_hex(n) == FormatRadix(n, 16)

(***************************************************************************)
(* Serializer: old/rust/bytecode.rs                                        *)
(***************************************************************************)
quote_char_bad(ch) ==
    IF ch = DQUOTE THEN <<BACKSLASH, DQUOTE>>
    ELSE IF ch = LF THEN <<BACKSLASH, LOWER_N>>
    ELSE IF ch = CR THEN <<BACKSLASH, LOWER_R>>
    ELSE IF ch = TAB THEN <<BACKSLASH, LOWER_T>>
    ELSE IF is_control(ch)
         THEN <<BACKSLASH, LOWER_U, LBRACE>> \o format_hex(ch) \o <<RBRACE>>
    ELSE <<ch>>

quote_char(ch) ==
    IF ch = BACKSLASH THEN <<BACKSLASH, BACKSLASH>>
    ELSE IF ch = DQUOTE THEN <<BACKSLASH, DQUOTE>>
    ELSE IF ch = LF THEN <<BACKSLASH, LOWER_N>>
    ELSE IF ch = CR THEN <<BACKSLASH, LOWER_R>>
    ELSE IF ch = TAB THEN <<BACKSLASH, LOWER_T>>
    ELSE IF is_control(ch)
         THEN <<BACKSLASH, LOWER_U, LBRACE>> \o format_hex(ch) \o <<RBRACE>>
    ELSE <<ch>>

quote_string(s) ==
    <<DQUOTE>> \o Flatten([i \in 1..Len(s) |-> quote_char(s[i])]) \o <<DQUOTE>>

\* " " followed by each quoted string of ss
QuotedList(ss) == Flatten([i \in 1..Len(ss) |-> <<SPACE>> \o quote_string(ss[i])])

NullaryOps ==
    {"Add", "Sub", "Mul", "Div", "Modulo", "Greater", "Less", "GreaterEqual",
     "LessEqual", "Equal", "NotEqual", "And", "Or", "Return", "ArrayNew",
     "ArrayGet", "ArrayLValue", "StoreThrough", "StoreThroughImmutable",
     "PushImmutableContext", "PopImmutableContext", "ClearImmutableContext",
     "Print", "Println", "Assert"}

NamedOps ==
    {"Load", "Store", "StoreImmutable", "Label", "Jump", "JumpIfZero",
     "StoreIndex", "NewStruct", "FieldGet", "FieldSet", "FieldLValue", "Error"}

ReactiveNamedOps == {"StoreReactive", "StoreIndexReactive", "FieldSetReactive"}

RECURSIVE write_instruction(_), write_code(_), write_struct_field(_, _)

\* the lines of every instruction of a code vector, in order
write_code(instrs) ==
    IF instrs = <<>> THEN <<>>
    ELSE write_instruction(Head(instrs)) \o write_code(Tail(instrs))

\* write_reactive_header(keyword, name, expr, lines); hasName = name.is_some()
write_reactive_header(keyword, hasName, name, expr) ==
    <<  keyword
        \o (IF hasName THEN <<SPACE>> \o quote_string(name) ELSE <<>>)
        \o <<SPACE>> \o format_int(Len(expr.captures))
        \o QuotedList(expr.captures)
        \o <<SPACE>> \o format_int(Len(expr.code)) >>
    \o write_code(expr.code)

write_reactive_field(name, expr) ==
    <<  WriteKw["Field"] \o <<SPACE>> \o quote_string(name) \o <<SPACE>>
        \o WriteKw["Reactive"] \o <<SPACE>> \o format_int(Len(expr.captures))
        \o QuotedList(expr.captures)
        \o <<SPACE>> \o format_int(Len(expr.code)) >>
    \o write_code(expr.code)

write_struct_field(name, init) ==
    IF init.kind = "None"
    THEN << WriteKw["Field"] \o <<SPACE>> \o quote_string(name) \o <<SPACE>>
            \o WriteKw["None"] >>
    ELSE IF init.kind \in {"Mutable", "Immutable"}
    THEN << WriteKw["Field"] \o <<SPACE>> \o quote_string(name) \o <<SPACE>>
            \o WriteKw[init.kind] \o <<SPACE>> \o format_int(Len(init.code)) >>
         \o write_code(init.code)
    ELSE write_reactive_field(name, init.expr)

RECURSIVE write_fields(_)
write_fields(fields) ==
    IF fields = <<>> THEN <<>>
    ELSE write_struct_field(Head(fields).name, Head(fields).init)
         \o write_fields(Tail(fields))

write_instruction(ins) ==
    LET op == ins.op IN
    IF op \in NullaryOps THEN << WriteKw[op] >>
    ELSE IF op \in NamedOps
    THEN << WriteKw[op] \o <<SPACE>> \o quote_string(ins.name) >>
    ELSE IF op \in {"Push", "PushChar"}
    THEN << WriteKw[op] \o <<SPACE>> \o format_int(ins.n) >>
    ELSE IF op \in ReactiveNamedOps
    THEN write_reactive_header(WriteKw[op], TRUE, ins.name, ins.expr)
    ELSE IF op = "StoreThroughReactive"
    THEN write_reactive_header(WriteKw[op], FALSE, <<>>, ins.expr)
    ELSE IF op = "StoreStruct"
    THEN << WriteKw[op] \o <<SPACE>> \o quote_string(ins.name) \o <<SPACE>>
            \o format_int(Len(ins.fields)) >>
         \o write_fields(ins.fields)
    ELSE IF op = "StoreFunction"
    THEN << WriteKw[op] \o <<SPACE>> \o quote_string(ins.name) \o <<SPACE>>
            \o format_int(Len(ins.params)) \o QuotedList(ins.params)
            \o <<SPACE>> \o format_int(Len(ins.code)) >>
         \o write_code(ins.code)
    ELSE IF op = "Call"
    THEN << WriteKw[op] \o <<SPACE>> \o quote_string(ins.name) \o <<SPACE>>
            \o format_int(ins.argc) >>
    ELSE IF op = "Import"
    THEN << WriteKw[op] \o <<SPACE>> \o format_int(Len(ins.path))
            \o QuotedList(ins.path) >>
    ELSE \* Cast
         << WriteKw[op] \o <<SPACE>> \o WriteKw[ins.target] >>

serialize_instructions(instrs) == JoinLines(<<MAGIC>> \o write_code(instrs))

(***************************************************************************)
(* Deserializer: src/bytecode.rs                                           *)
(***************************************************************************)
\* str::lines(): split at LF, a CR right before the LF belongs to the line
\* ending, and a final line ending yields no further (empty) line
str_lines(text) ==
    LET ends   == {i \in 1..Len(text) : text[i] = LF}
        starts == {s \in {1} \cup {i + 1 : i \in ends} : s <= Len(text)}
        LineAt(s) ==
            LET after == {e \in ends : e >= s} IN
            IF after = {} THEN SubSeq(text, s, Len(text))
            ELSE LET e == CHOOSE x \in after : \A y \in after : x <= y IN
                 IF e > s /\ text[e - 1] = CR THEN SubSeq(text, s, e - 2)
                 ELSE SubSeq(text, s, e - 1)
        \* the starts in increasing order
        order == [k \in 1..Cardinality(starts) |->
                     CHOOSE i \in starts : Cardinality({j \in starts : j < i}) = k - 1]
    IN [k \in 1..Len(order) |-> LineAt(order[k])]

RECURSIVE TrimStart(_), TrimEnd(_)
TrimStart(s) == IF s # <<>> /\ is_whitespace(Head(s)) THEN TrimStart(Tail(s)) ELSE s
TrimEnd(s) ==
    IF s # <<>> /\ is_whitespace(s[Len(s)]) THEN TrimEnd(SubSeq(s, 1, Len(s) - 1)) ELSE s

\* str::trim()
str_trim(s) == TrimEnd(TrimStart(s))

\* value of a digit character in the radix, -1 when it is none
DigitValue(c, radix) ==
    LET v == IF c \in 48..57 THEN c - 48
             ELSE IF c \in 97..122 THEN c - 97 + 10
             ELSE IF c \in 65..90 THEN c - 65 + 10
             ELSE radix
    IN IF v < radix THEN v ELSE -1

\* Overflow: the sentinel of the digit loops for a value out of range
\* (from_str_radix accumulates with checked_mul and checked_add/checked_sub)
RECURSIVE AccumulateUp(_, _, _, _, _), AccumulateDown(_, _, _, _)
\* [ok, val]: the digits of s from position i on, added to acc, at most max
AccumulateUp(s, i, acc, radix, max) ==
    IF i > Len(s) THEN [ok |-> TRUE, val |-> acc]
    ELSE LET d == DigitValue(s[i], radix) IN
         IF d < 0 THEN [ok |-> FALSE]
         ELSE IF acc > (max - d) \div radix THEN [ok |-> FALSE]
         ELSE AccumulateUp(s, i + 1, acc * radix + d, radix, max)

\* the same for a negative number: digits subtracted from acc, at least min
AccumulateDown(s, i, acc, min) ==
    IF i > Len(s) THEN [ok |-> TRUE, val |-> acc]
    ELSE LET d == DigitValue(s[i], 10) IN
         IF d < 0 THEN [ok |-> FALSE]
         ELSE IF acc < (min + d + 9) \div 10 THEN [ok |-> FALSE]
         ELSE AccumulateDown(s, i + 1, acc * 10 - d, min)

\* <unsigned>::from_str_radix: an optional '+', at least one digit, in range
ParseUnsigned(s, radix, max) ==
    LET body == IF s # <<>> /\ s[1] = PLUS THEN Tail(s) ELSE s
    IN IF body = <<>> THEN [ok |-> FALSE] ELSE AccumulateUp(body, 1, 0, radix, max)

\* i32::from_str: an optional sign, at least one digit, in range
ParseSigned(s, min, max) ==
    LET body == IF s # <<>> /\ s[1] \in {PLUS, MINUS} THEN Tail(s) ELSE s
    IN IF body = <<>> THEN [ok |-> FALSE]
       ELSE IF s[1] = MINUS THEN AccumulateDown(body, 1, 0, min)
       ELSE AccumulateUp(body, 1, 0, 10, max)

\* an error message without a line prefix (the parse_* helpers' own Err)
PlainErr(msg) == [ok |-> FALSE, msg |-> msg, hasLine |-> FALSE, line |-> 0]

parse_i32(s) ==
    LET r == ParseSigned(s, I32_MIN, I32_MAX) IN
    IF r.ok THEN r ELSE PlainErr("invalid i32")

parse_u32(s) ==
    LET r == ParseUnsigned(s, 10, UNSIGNED_MAX) IN
    IF r.ok THEN r ELSE PlainErr("invalid u32")

parse_usize(s) ==
    LET r == ParseUnsigned(s, 10, UNSIGNED_MAX) IN
    IF r.ok THEN r ELSE PlainErr("invalid usize")

\* ---- tokenize_line -------------------------------------------------------
\* the hexadecimal digits of \u{...}: from position i to the closing brace
RECURSIVE ReadHex(_, _, _)
ReadHex(line, i, hex) ==
    IF i > Len(line) THEN [closed |-> FALSE, hex |-> hex, next |-> i]
    ELSE IF line[i] = RBRACE THEN [closed |-> TRUE, hex |-> hex, next |-> i + 1]
    ELSE ReadHex(line, i + 1, Append(hex, line[i]))

\* a quoted token: position i is right after the opening quote
RECURSIVE ReadQuoted(_, _, _)
ReadQuoted(line, i, out) ==
    IF i > Len(line) THEN PlainErr("unterminated string")
    ELSE LET c == line[i] IN
    IF c = DQUOTE THEN [ok |-> TRUE, token |-> out, next |-> i + 1]
    ELSE IF c = BACKSLASH
    THEN IF i + 1 > Len(line) THEN PlainErr("unterminated escape")
         ELSE LET esc == line[i + 1] IN
         IF esc = LOWER_N THEN ReadQuoted(line, i + 2, Append(out, LF))
         ELSE IF esc = LOWER_R THEN ReadQuoted(line, i + 2, Append(out, CR))
         ELSE IF esc = LOWER_T THEN ReadQuoted(line, i + 2, Append(out, TAB))
         ELSE IF esc = BACKSLASH THEN ReadQuoted(line, i + 2, Append(out, BACKSLASH))
         ELSE IF esc = DQUOTE THEN ReadQuoted(line, i + 2, Append(out, DQUOTE))
         ELSE IF esc = LOWER_U
         THEN IF i + 2 > Len(line) \/ line[i + 2] # LBRACE
              THEN PlainErr("invalid unicode escape")
              ELSE LET h == ReadHex(line, i + 3, <<>>)
                       v == ParseUnsigned(h.hex, 16, UNSIGNED_MAX)
                   IN IF ~h.closed THEN PlainErr("unterminated unicode escape")
                      ELSE IF ~v.ok THEN PlainErr("invalid unicode escape")
                      ELSE IF ~is_scalar(v.val) THEN PlainErr("invalid unicode scalar")
                      ELSE ReadQuoted(line, h.next, Append(out, v.val))
         ELSE PlainErr("unknown escape")
    ELSE ReadQuoted(line, i + 1, Append(out, c))

\* an unquoted token: up to the next whitespace
RECURSIVE ReadBare(_, _, _)
ReadBare(line, i, out) ==
    IF i > Len(line) \/ is_whitespace(line[i])
    THEN [ok |-> TRUE, token |-> out, next |-> i]
    ELSE ReadBare(line, i + 1, Append(out, line[i]))

RECURSIVE TokenizeFrom(_, _, _)
TokenizeFrom(line, i, tokens) ==
    IF i > Len(line)
    THEN IF tokens = <<>> THEN PlainErr("empty line")
         ELSE [ok |-> TRUE, tokens |-> tokens]
    ELSE IF is_whitespace(line[i]) THEN TokenizeFrom(line, i + 1, tokens)
    ELSE LET t == IF line[i] = DQUOTE THEN ReadQuoted(line, i + 1, <<>>)
                  ELSE ReadBare(line, i, <<>>)
         IN IF ~t.ok THEN t ELSE TokenizeFrom(line, t.next, Append(tokens, t.token))

tokenize_line(line) == TokenizeFrom(line, 1, <<>>)

\* ---- Parser --------------------------------------------------------------
\* Parser::new
Parser_new == [index |-> 0, last_line |-> 0]

\* Parser::error: the message prefixed with "line N: "
Parser_error(p, msg) ==
    [ok |-> FALSE, msg |-> msg, hasLine |-> TRUE,
     line |-> IF p.last_line = 0 THEN p.index + 1 ELSE p.last_line]

\* .map_err(|e| self.error(&e))
map_err(r, p) == IF r.ok THEN r ELSE Parser_error(p, r.msg)

\* a next_line that moves the cursor past the line behind the one it returns
next_line_skips(lines, p) ==
    IF p.index >= Len(lines) THEN Parser_error(p, "unexpected end of bytecode")
    ELSE [ok |-> TRUE, line |-> lines[p.index + 1],
          p |-> [index |-> p.index + 2, last_line |-> p.index + 1]]

\* Parser::next_line
next_line(lines, p) ==
    IF p.index >= Len(lines) THEN Parser_error(p, "unexpected end of bytecode")
    ELSE [ok |-> TRUE, line |-> lines[p.index + 1],
          p |-> [index |-> p.index + 1, last_line |-> p.index + 1]]

\* parse_arity
parse_arity(tokens, expected, p) ==
    IF Len(tokens) # expected THEN Parser_error(p, "expects token(s)") ELSE [ok |-> TRUE]

\* a variant that takes a token naming no operator for the operator Add
OpOf_lenient(token) ==
    IF \E op \in DOMAIN ParseKw : ParseKw[op] = token
    THEN CHOOSE op \in DOMAIN ParseKw : ParseKw[op] = token
    ELSE "Add"

\* the operator a first token names, "" when it names none
OpOf(token) ==
    LET hit == {op \in NullaryOps \cup NamedOps \cup ReactiveNamedOps \cup
                       {"Push", "PushChar", "StoreStruct", "StoreThroughReactive",
                        "StoreFunction", "Call", "Import", "Cast"} :
                    ParseKw[op] = token}
    IN IF hit = {} THEN "" ELSE CHOOSE op \in hit : TRUE

\* the `?` operator: an Err is returned at once, an Ok value is handed on
Try(r, Continue(_)) == IF r.ok THEN Continue(r) ELSE r

RECURSIVE parse_instruction(_, _), parse_instructions(_, _, _, _),
          parse_field(_, _), parse_fields(_, _, _, _)

\* the machines the parser runs on: one that cannot give a Vec room for more
\* than MemoryScarce elements, one that grants every request
MemoryScarce == 1000000
MemoryLimits == { MemoryScarce, UNSIGNED_MAX }

\* Vec::with_capacity(capacity): room for `capacity` elements is allocated at
\* once; a request that cannot be met panics (capacity overflow) or aborts
\* (allocation failure), it does not return
with_capacity(capacity) ==
    IF capacity <= memory THEN [ok |-> TRUE]
    ELSE [ok |-> FALSE, msg |-> "capacity overflow", hasLine |-> FALSE, line |-> 0,
          panic |-> TRUE]

\* Parser::parse_instructions: `count` instructions, appended to `instrs`
\* (empty when the function is entered)
parse_instructions(lines, p, count, instrs) ==
    IF count = 0 THEN [ok |-> TRUE, code |-> instrs, p |-> p]
    ELSE Try(IF instrs = <<>> THEN with_capacity(count) ELSE [ok |-> TRUE],
             LAMBDA room :
                 Try(parse_instruction(lines, p),
                     LAMBDA r : parse_instructions(lines, r.p, count - 1,
                                                   Append(instrs, r.instr))))

\* the tail of parse_reactive_named, parse_reactive_unnamed and of the
\* Reactive arm of parse_field: tokens[at] is the capture count
ParseReactiveExpr(lines, p, tokens, at, msgCount) ==
    Try(map_err(parse_usize(tokens[at]), p), LAMBDA cap :
        IF Len(tokens) # at + 1 + cap.val THEN Parser_error(p, msgCount)
        ELSE Try(map_err(parse_usize(tokens[at + 1 + cap.val]), p), LAMBDA len :
             Try(parse_instructions(lines, p, len.val, <<>>), LAMBDA c :
                 [ok |-> TRUE, p |-> c.p,
                  expr |-> [code |-> c.code,
                            captures |-> SubSeq(tokens, at + 1, at + cap.val)]])))

parse_reactive_named(lines, p, tokens, op) ==
    IF Len(tokens) < 4
    THEN Parser_error(p, "expected name, capture count, captures, code length")
    ELSE Try(ParseReactiveExpr(lines, p, tokens, 3, "expected capture(s)"), LAMBDA e :
             [ok |-> TRUE, p |-> e.p,
              instr |-> [op |-> op, name |-> tokens[2], expr |-> e.expr]])

parse_reactive_unnamed(lines, p, tokens) ==
    IF Len(tokens) < 3
    THEN Parser_error(p, "expected capture count, captures, code length")
    ELSE Try(ParseReactiveExpr(lines, p, tokens, 2, "expected capture(s)"), LAMBDA e :
             [ok |-> TRUE, p |-> e.p,
              instr |-> [op |-> "StoreThroughReactive", expr |-> e.expr]])

parse_import(p, tokens) ==
    IF Len(tokens) < 2 THEN Parser_error(p, "Import expects a count")
    ELSE Try(map_err(parse_usize(tokens[2]), p), LAMBDA count :
             IF Len(tokens) # 2 + count.val
             THEN Parser_error(p, "Import expects segment(s)")
             ELSE [ok |-> TRUE, p |-> p,
                   instr |-> [op |-> "Import", path |-> SubSeq(tokens, 3, Len(tokens))]])

parse_function(lines, p, tokens) ==
    IF Len(tokens) < 4
    THEN Parser_error(p, "StoreFunction expects name, param count, params, code length")
    ELSE Try(map_err(parse_usize(tokens[3]), p), LAMBDA pc :
             IF Len(tokens) # 4 + pc.val
             THEN Parser_error(p, "StoreFunction expects parameter(s)")
             ELSE Try(map_err(parse_usize(tokens[4 + pc.val]), p), LAMBDA len :
                  Try(parse_instructions(lines, p, len.val, <<>>), LAMBDA c :
                      [ok |-> TRUE, p |-> c.p,
                       instr |-> [op |-> "StoreFunction", name |-> tokens[2],
                                  params |-> SubSeq(tokens, 4, 3 + pc.val),
                                  code |-> c.code]])))

\* Parser::parse_field from the tokens of its line on
FieldOf(lines, p, tokens) ==
    IF Len(tokens) < 3 \/ tokens[1] # ParseKw["Field"]
    THEN Parser_error(p, "expected Field entry")
    ELSE IF tokens[3] = ParseKw["None"]
    THEN IF Len(tokens) # 3 THEN Parser_error(p, "Field None expects no extra tokens")
         ELSE [ok |-> TRUE, p |-> p,
               field |-> [name |-> tokens[2], init |-> [kind |-> "None"]]]
    ELSE IF tokens[3] \in {ParseKw["Mutable"], ParseKw["Immutable"]}
    THEN IF Len(tokens) # 4 THEN Parser_error(p, "Field expects code length")
         ELSE Try(map_err(parse_usize(tokens[4]), p), LAMBDA len :
              Try(parse_instructions(lines, p, len.val, <<>>), LAMBDA c :
                  [ok |-> TRUE, p |-> c.p,
                   field |-> [name |-> tokens[2],
                              init |-> [kind |-> IF tokens[3] = ParseKw["Mutable"]
                                                 THEN "Mutable" ELSE "Immutable",
                                        code |-> c.code]]]))
    ELSE IF tokens[3] = ParseKw["Reactive"]
    THEN IF Len(tokens) < 5
         THEN Parser_error(p, "Field Reactive expects captures and code length")
         ELSE Try(ParseReactiveExpr(lines, p, tokens, 4,
                                    "Field Reactive expects capture(s)"), LAMBDA e :
                  [ok |-> TRUE, p |-> e.p,
                   field |-> [name |-> tokens[2],
                              init |-> [kind |-> "Reactive", expr |-> e.expr]]])
    ELSE Parser_error(p, "unknown field init")

\* Parser::parse_field
parse_field(lines, p0) ==
    Try(next_line(lines, p0), LAMBDA nl :
        Try(map_err(tokenize_line(nl.line), nl.p), LAMBDA tk :
            FieldOf(lines, nl.p, tk.tokens)))

\* the loop of parse_struct: `count` Field entries, appended to `fields`
parse_fields(lines, p, count, fields) ==
    IF count = 0 THEN [ok |-> TRUE, fields |-> fields, p |-> p]
    ELSE Try(IF fields = <<>> THEN with_capacity(count) ELSE [ok |-> TRUE],
             LAMBDA room :
                 Try(parse_field(lines, p),
                     LAMBDA r : parse_fields(lines, r.p, count - 1,
                                             Append(fields, r.field))))

parse_struct(lines, p, tokens) ==
    IF Len(tokens) # 3 THEN Parser_error(p, "StoreStruct expects name and field count")
    ELSE Try(map_err(parse_usize(tokens[3]), p), LAMBDA fc :
         Try(parse_fields(lines, p, fc.val, <<>>), LAMBDA f :
             [ok |-> TRUE, p |-> f.p,
              instr |-> [op |-> "StoreStruct", name |-> tokens[2],
                         fields |-> f.fields]]))

\* Parser::parse_instruction from the tokens of its line on: the match on
\* tokens[0], which names the operator `op`
InstructionOf(lines, p, tokens, op) ==
    IF op \in NullaryOps
    THEN Try(parse_arity(tokens, 1, p), LAMBDA a :
             [ok |-> TRUE, p |-> p, instr |-> [op |-> op]])
    ELSE IF op \in NamedOps
    THEN Try(parse_arity(tokens, 2, p), LAMBDA a :
             [ok |-> TRUE, p |-> p, instr |-> [op |-> op, name |-> tokens[2]]])
    ELSE IF op \in {"Push", "PushChar"}
    THEN Try(parse_arity(tokens, 2, p), LAMBDA a :
         Try(IF op = "Push" THEN parse_i32(tokens[2]) ELSE parse_u32(tokens[2]),
             LAMBDA n : [ok |-> TRUE, p |-> p, instr |-> [op |-> op, n |-> n.val]]))
    ELSE IF op \in ReactiveNamedOps THEN parse_reactive_named(lines, p, tokens, op)
    ELSE IF op = "StoreThroughReactive" THEN parse_reactive_unnamed(lines, p, tokens)
    ELSE IF op = "StoreStruct" THEN parse_struct(lines, p, tokens)
    ELSE IF op = "StoreFunction" THEN parse_function(lines, p, tokens)
    ELSE IF op = "Call"
    THEN Try(parse_arity(tokens, 3, p), LAMBDA a :
         Try(parse_usize(tokens[3]), LAMBDA n :
             [ok |-> TRUE, p |-> p,
              instr |-> [op |-> op, name |-> tokens[2], argc |-> n.val]]))
    ELSE IF op = "Import" THEN parse_import(p, tokens)
    ELSE IF op = "Cast"
    THEN Try(parse_arity(tokens, 2, p), LAMBDA a :
             IF tokens[2] = ParseKw["Int"]
             THEN [ok |-> TRUE, p |-> p, instr |-> [op |-> op, target |-> "Int"]]
             ELSE IF tokens[2] = ParseKw["Char"]
             THEN [ok |-> TRUE, p |-> p, instr |-> [op |-> op, target |-> "Char"]]
             ELSE Parser_error(p, "unknown cast type"))
    ELSE Parser_error(p, "unknown instruction")

\* Parser::parse_instruction
parse_instruction(lines, p0) ==
    Try(next_line(lines, p0), LAMBDA nl :
        Try(map_err(tokenize_line(nl.line), nl.p), LAMBDA tk :
            InstructionOf(lines, nl.p, tk.tokens, OpOf(tk.tokens[1]))))

\* the loop of deserialize_instructions: while !parser.is_done()
RECURSIVE ParseAll(_, _, _)
ParseAll(lines, p, instrs) ==
    IF p.index >= Len(lines) THEN [ok |-> TRUE, code |-> instrs]
    ELSE Try(parse_instruction(lines, p),
             LAMBDA r : ParseAll(lines, r.p, Append(instrs, r.instr)))

deserialize_instructions(input) ==
    LET lines == str_lines(input) IN
    IF lines = <<>> THEN PlainErr("bytecode is empty")
    ELSE IF str_trim(Head(lines)) # MAGIC THEN PlainErr("invalid bytecode header")
    ELSE ParseAll(Tail(lines), Parser_new, <<>>)

(***************************************************************************)
(* Round-trip driver: the inputs serialize_instructions is applied to      *)
(***************************************************************************)
\* bounds of the generated instruction vectors
MaxBlock == 1     \* instructions in a nested code block
MaxList  == 2     \* names in a list of captures, parameters or path segments

\* the well-formed instruction vectors the round trip is run on, built from
\* every instruction of the enum over the names below
Inputs ==
    LET
        \* names and messages: plain, empty, with a space, a double quote, a
        \* backslash, a newline, a carriage return, a tab, other control characters
        \* (U+0001, U+007F, U+0085), and texts that look like escapes or keywords
        Names ==
            { <<97>>, <<>>, <<97, SPACE, 98>>, <<DQUOTE>>, <<BACKSLASH>>, <<LF>>, <<CR>>,
              <<TAB>>, <<1>>, <<127>>, <<133>>, <<BACKSLASH, LOWER_N>>,
              <<BACKSLASH, LOWER_U, LBRACE, 49, RBRACE>>, <<97, DQUOTE, SPACE, 98>>,
              <<160>>, <<233>> }

        ListNames == { <<97, SPACE, 98>>, <<DQUOTE, BACKSLASH, LF>> }

        \* sequences over S of length 0..n
        SeqUpTo(S, n) == UNION { [1..k -> S] : k \in 0..n }

        SimpleInstrs ==
               { [op |-> o] : o \in NullaryOps }
          \cup { [op |-> o, name |-> s] : o \in NamedOps, s \in Names }
          \cup { [op |-> "Push", n |-> v] : v \in {I32_MIN, -5, 0, 7, I32_MAX} }
          \cup { [op |-> "PushChar", n |-> v] : v \in {0, 65, 55296, 1114111, UNSIGNED_MAX} }
          \cup { [op |-> "Call", name |-> s, argc |-> k] : s \in ListNames, k \in {0, 2, 10} }
          \cup { [op |-> "Cast", target |-> t] : t \in {"Int", "Char"} }
          \cup { [op |-> "Import", path |-> q] : q \in SeqUpTo(ListNames, MaxList) }

        \* what nested blocks are built from
        BlockInstrs ==
            { [op |-> "Push", n |-> -5], [op |-> "Load", name |-> <<97, SPACE, 98>>],
              [op |-> "Mul"], [op |-> "Error", name |-> <<DQUOTE, BACKSLASH, LF>>] }

        Exprs == { [code |-> c, captures |-> k] : c \in SeqUpTo(BlockInstrs, MaxBlock), k \in SeqUpTo(ListNames, MaxList) }

        ReactiveInstrs ==
               { [op |-> o, name |-> <<97, SPACE, 98>>, expr |-> e] :
                    o \in ReactiveNamedOps, e \in Exprs }
          \cup { [op |-> "StoreThroughReactive", expr |-> e] : e \in Exprs }

        FieldInits ==
               { [kind |-> "None"] }
          \cup { [kind |-> k, code |-> c] : k \in {"Mutable", "Immutable"}, c \in SeqUpTo(BlockInstrs, MaxBlock) }
          \cup { [kind |-> "Reactive", expr |-> e] :
                    e \in { x \in Exprs : Len(x.captures) <= 1 } }

        \* one field of each kind, for the definitions with two fields
        TwoFieldInits ==
            { [kind |-> "None"], [kind |-> "Mutable", code |-> <<>>],
              [kind |-> "Immutable", code |-> <<[op |-> "Mul"]>>],
              [kind |-> "Reactive",
               expr |-> [code |-> <<[op |-> "Mul"]>>, captures |-> <<<<DQUOTE, BACKSLASH, LF>>>>]] }

        StructInstrs ==
               { [op |-> "StoreStruct", name |-> <<80>>, fields |-> f] :
                    f \in SeqUpTo({ [name |-> <<97, SPACE, 98>>, init |-> i] : i \in FieldInits }, 1) }
          \cup { [op |-> "StoreStruct", name |-> <<80>>,
                  fields |-> << [name |-> <<120>>, init |-> i], [name |-> <<121>>, init |-> j] >>] :
                    i \in TwoFieldInits, j \in TwoFieldInits }

        \* instructions that nest a block inside a function body
        InnerInstrs ==
            { [op |-> "StoreReactive", name |-> <<97>>,
               expr |-> [code |-> c, captures |-> <<<<97, SPACE, 98>>>>]] : c \in { <<>>, <<[op |-> "Mul"]>> } }
          \cup { [op |-> "StoreFunction", name |-> <<103>>, params |-> <<>>, code |-> c] :
                    c \in { <<>>, <<[op |-> "Mul"]>> } }
          \cup { [op |-> "StoreStruct", name |-> <<80>>,
                  fields |-> << [name |-> <<97>>, init |-> [kind |-> "Reactive",
                                  expr |-> [code |-> c, captures |-> <<>>]]] >>] :
                    c \in { <<>>, <<[op |-> "Mul"]>> } }

        FunctionInstrs ==
            { [op |-> "StoreFunction", name |-> <<102>>, params |-> q, code |-> c] :
                q \in SeqUpTo(ListNames, MaxList), c \in SeqUpTo(BlockInstrs \cup InnerInstrs, MaxBlock) }

        NestedInstrs == ReactiveInstrs \cup StructInstrs \cup FunctionInstrs
    IN
            { <<>> }
       \cup { <<i>> : i \in SimpleInstrs \cup NestedInstrs }
       \cup { <<i, [op |-> "Mul"]>> : i \in NestedInstrs }
       \cup { <<[op |-> "Push", n |-> -5], i>> : i \in NestedInstrs }

\* what an edited file may start with in place of the header line
HeaderEdits ==
    { <<>>, <<SPACE>> \o MAGIC, MAGIC \o <<SPACE>>, MAGIC \o <<TAB>>, <<TAB>> \o MAGIC,
      <<82,88,66,50>>, <<114,120,98,49>>, MAGIC \o <<49>>, <<82,88,66>>,
      MAGIC \o <<CR>>, <<LF>> \o MAGIC }


\* lines parse_instruction and parse_field reject, as runs of lines whose last
\* line is the malformed one:
\*   Foo                          unknown opcode
\*   mul                          unknown opcode (case)
\*   Mul 1                        too many tokens
\*   Push                         too few tokens
\*   Call "f"                     too few tokens
\*   Load "a                      unterminated string
\*   Load "a\                     unterminated escape
\*   Load "\q"                    invalid escape
\*   Load "\u{110000}"            invalid unicode scalar
\*   Cast Foo                     unknown Cast type
\*   StoreStruct "S" 1 / Field "x" Bogus     unknown Field kind
\*   (nothing)                    empty line
\*   (a space and a tab)          whitespace-only line
MalformedLines ==
    { << <<70,111,111>> >>,
      << <<109,117,108>> >>,
      << <<77,117,108,32,49>> >>,
      << <<80,117,115,104>> >>,
      << <<67,97,108,108,32,34,102,34>> >>,
      << <<76,111,97,100,32,34,97>> >>,
      << <<76,111,97,100,32,34,97,92>> >>,
      << <<76,111,97,100,32,34,92,113,34>> >>,
      << <<76,111,97,100,32,34,92,117,123,49,49,48,48,48,48,125,34>> >>,
      << <<67,97,115,116,32,70,111,111>> >>,
      << <<83,116,111,114,101,83,116,114,117,99,116,32,34,83,34,32,49>>, <<70,105,101,108,100,32,34,120,34,32,66,111,103,117,115>> >>,
      << <<>> >>,
      << <<32,9>> >> }

\* lines whose numeric operand parse_i32, parse_u32 or parse_usize rejects:
\*   Push x                       non-numeric Push
\*   Push 2147483648              Push above i32::MAX
\*   PushChar x                   non-numeric PushChar
\*   PushChar -1                  negative PushChar
\*   Call "f" x                   non-numeric Call count
\*   Call "f" -1                  negative Call count
BadOperandLines ==
    { << <<80,117,115,104,32,120>> >>,
      << <<80,117,115,104,32,50,49,52,55,52,56,51,54,52,56>> >>,
      << <<80,117,115,104,67,104,97,114,32,120>> >>,
      << <<80,117,115,104,67,104,97,114,32,45,49>> >>,
      << <<67,97,108,108,32,34,102,34,32,120>> >>,
      << <<67,97,108,108,32,34,102,34,32,45,49>> >> }
(***************************************************************************)
(* The stack machine: src/vm.rs                                            *)
(***************************************************************************)
\* ---- bounds ---------------------------------------------------------------
\* instructions run() fetches in a run, per family of programs
MaxStepsImmutable == 7
MaxStepsReactive  == 9
MaxStepsStruct    == 10
MaxStepsCall      == 7
MaxStepsField     == 8
MaxStepsLValue    == 13
MaxStepsAlloc     == 7
MaxStepsBind      == 7
MaxStepsOverwrite == 10
MaxVecOps         == 5
MaxStepsEscape    == 7
MaxStepsForced    == 10
MaxStepsDeterm    == 7
MaxStepsJump      == 6
MaxProgram        == 4   \* instructions of a program that branches
MaxStepsInit      == 7
MaxStepsString    == 7
MaxStackBind == 3 \* the same in the programs that pass arguments
MaxStack  == 2    \* operand stack depth at which the program pushes no more
MaxFrames == 2    \* nested call_function activations
MaxScopes == 3    \* immutable scopes the program pushes on top of each other
MaxHeap   == 2    \* struct instances
MaxArrays == 1    \* arrays a program of the family allocates
\* the bytes the user types: ESC [ A B C D, and Z and x
Keys == {27, 91, 65, 66, 67, 68, 90, 120}
MaxCalls == 4     \* calls of the input natives in a run
MaxInput == 3     \* bytes typed and not yet returned by internal_input_poll
MaxArgs == 3      \* arguments on the command line
MaxString == 2    \* characters of a string literal the driver emits
\* recursion depth at which evaluate has overflowed the thread's stack; far
\* above what an acyclic expression of the bounded programs needs
StackLimit == 12

\* ---- Type (old grammar: Integer, LazyInteger, Array, StructRef, Function) --
Integer(n)             == [t |-> "Integer", n |-> n]
LazyInteger(ast)       == [t |-> "LazyInteger", ast |-> ast]
Array(elems)           == [t |-> "Array", elems |-> elems]
StructRef(id)          == [t |-> "StructRef", id |-> id]
Function(params, body) == [t |-> "Function", params |-> params, body |-> body]

\* ---- AST, as far as vm.rs looks into it ------------------------------------
Number(n)              == [k |-> "Number", n |-> n]
Var(name)              == [k |-> "Var", name |-> name]
Operation(l, o, r)     == [k |-> "Operation", l |-> l, o |-> o, r |-> r]
Index(b, i)            == [k |-> "Index", base |-> b, index |-> i]
FieldAccess(b, f)      == [k |-> "FieldAccess", base |-> b, field |-> f]
Return(e)              == [k |-> "Return", has |-> TRUE, expr |-> e]
ReturnNone             == [k |-> "Return", has |-> FALSE]
\* any other statement: vm.rs hands it to compiler::compile and runs the result
Statement(c)           == [k |-> "Statement", code |-> c]

\* crate::compiler::compile(ast, &mut tmp, ..): the instructions of a statement
compile(ast) == ast.code

\* Option
None    == [some |-> FALSE]
Some(v) == [some |-> TRUE, v |-> v]

\* Result of an evaluation that may panic
Ok(n)     == [ok |-> TRUE, n |-> n]
OkV(v)    == [ok |-> TRUE, v |-> v]
Fail(why) == [ok |-> FALSE, err |-> why]

\* the sequences of a sequence, one after the other
RECURSIVE Concat(_)
Concat(seqs) == IF seqs = <<>> THEN <<>> ELSE Head(seqs) \o Concat(Tail(seqs))

\* HashMap::insert
Insert(map, key, v) == (key :> v) @@ map

EmptyMap == [x \in {} |-> 0]

\* ---- name lookup ------------------------------------------------------------
\* a lookup that sees the innermost scope only
find_immutable_top_only(imm, name) ==
    IF imm = <<>> THEN None
    ELSE IF name \in DOMAIN imm[Len(imm)] THEN Some(imm[Len(imm)][name])
    ELSE None

\* self.immutable_stack.iter().rev().find_map(|s| s.get(name))
RECURSIVE find_immutable(_, _)
find_immutable(imm, name) ==
    IF imm = <<>> THEN None
    ELSE IF name \in DOMAIN imm[Len(imm)] THEN Some(imm[Len(imm)][name])
    ELSE find_immutable(SubSeq(imm, 1, Len(imm) - 1), name)

immutable_exists(imm, name) == find_immutable(imm, name).some

\* find_immutable(name).cloned().or_else(|| environment.get(name).cloned())
Lookup(imm, name) ==
    LET f == find_immutable(imm, name) IN
    IF f.some THEN f
    ELSE IF name \in DOMAIN environment THEN Some(environment[name]) ELSE None

\* ---- arithmetic ---------------------------------------------------------------
Bool(b) == IF b THEN 1 ELSE 0

\* Rust's i32 `/` truncates towards zero (b # 0, and not I32_MIN / -1);
\* written so that no intermediate value leaves i32
TruncDiv(a, b) ==
    LET Towards0(x, d) == IF x >= 0 THEN x \div d ELSE (x + d - 1) \div d IN
    IF b = I32_MIN THEN (IF a = I32_MIN THEN 1 ELSE 0)
    ELSE IF b > 0 THEN Towards0(a, b)
    ELSE -Towards0(a, -b)

\* a * b does not fit an i32; computed without leaving i32
MulOverflows(a, b) ==
    IF a = 0 \/ b = 0 THEN FALSE
    ELSE IF a = I32_MIN THEN b # 1
    ELSE IF b = I32_MIN THEN a # 1
    ELSE LET x == IF a < 0 THEN -a ELSE a
             y == IF b < 0 THEN -b ELSE b
             q == I32_MAX \div y
         IN IF (a < 0) = (b < 0) THEN x > q
            ELSE \* the product may be I32_MIN itself
                 x > q /\ ~(x = q + 1 /\ q * y = I32_MAX - y + 1)

\* the value of `a <o> b` in i32; arithmetic that leaves i32 panics
\* ("attempt to multiply with overflow": the build with overflow checks)
ApplyOperator(o, a, b) ==
    IF o = "Division" /\ b = 0 THEN Fail("division by zero")
    ELSE IF o = "Division" /\ a = I32_MIN /\ b = -1 THEN Fail("arithmetic overflow")
    ELSE IF o = "Multiplication" /\ MulOverflows(a, b) THEN Fail("arithmetic overflow")
    ELSE LET r == CASE o = "Addition"       -> a + b
                    [] o = "Subtraction"    -> a - b
                    [] o = "Multiplication" -> a * b
                    [] o = "Division"       -> TruncDiv(a, b)
                    [] o = "Greater"        -> Bool(a > b)
                    [] o = "Less"           -> Bool(a < b)
                    [] o = "Equal"          -> Bool(a = b)
                    [] o = "NotEqual"       -> Bool(a # b)
                    [] o = "GreaterEqual"   -> Bool(a >= b)
                    [] o = "LessEqual"      -> Bool(a <= b)
                    [] o = "And"            -> Bool(a > 0 /\ b > 0)
                    [] o = "Or"             -> Bool(a > 0 \/ b > 0)
         IN IF r > I32_MAX \/ r < I32_MIN THEN Fail("arithmetic overflow") ELSE Ok(r)

\* ---- iteration over a HashMap --------------------------------------------------
\* the names a struct of these programs gives its fields
FieldNames == {"x", "y", "z"}

\* the orders an iterator can take
Hashers == { s \in [1..Cardinality(FieldNames) -> FieldNames] :
                \A j, k \in DOMAIN s : s[j] = s[k] => j = k }

\* self.heap[id].fields.iter(): the keys of the map in the order `order`
iter(map, order) == SelectSeq(order, LAMBDA k : k \in DOMAIN map)

\* the loop left after its first pair
insert_first(scope, map, keys) ==
    IF keys = <<>> THEN scope ELSE Insert(scope, Head(keys), map[Head(keys)])

\* for (k, v) in ... { scope.insert(k.clone(), v.clone()); }
RECURSIVE insert_each(_, _, _)
insert_each(scope, map, keys) ==
    IF keys = <<>> THEN scope
    ELSE insert_each(Insert(scope, Head(keys), map[Head(keys)]), map, Tail(keys))

\* ---- evaluation of an AST -----------------------------------------------------
\* `fuel` is the stack the thread has left: recursion that uses it up is a
\* stack overflow, which aborts the process
RECURSIVE evaluate(_, _, _), as_int(_, _, _), eval_value(_, _, _),
          eval_reactive_field(_, _, _, _)

\* fn as_int(&mut self, v: Type) -> i32
as_int(v, imm, fuel) ==
    IF fuel = 0 THEN Fail("stack overflow")
    ELSE CASE v.t = "Integer"     -> Ok(v.n)
           [] v.t = "LazyInteger" -> evaluate(v.ast, imm, fuel - 1)
           [] v.t = "Array"       -> Ok(Len(v.elems))
           [] OTHER               -> Fail("type")

\* fn eval_reactive_field(&mut self, id, ast) -> Type: a scope is pushed for
\* the evaluation and filled from the iterator over the instance's fields
eval_reactive_field(id, ast, imm, fuel) ==
    IF fuel = 0 THEN Fail("stack overflow")
    ELSE LET fields == heap[id + 1].fields
             scope  == insert_each(EmptyMap, fields, iter(fields, random_state))
         IN evaluate(ast, Append(imm, scope), fuel - 1)

\* fn evaluate(&mut self, ast: AST) -> i32
evaluate(ast, imm, fuel) ==
    IF fuel = 0 THEN Fail("stack overflow")
    ELSE CASE ast.k = "Number" -> Ok(ast.n)
      [] ast.k = "Var" ->
            LET v == Lookup(imm, ast.name) IN
            IF ~v.some THEN Fail("undefined") ELSE as_int(v.v, imm, fuel - 1)
      [] ast.k = "Operation" ->
            LET a == evaluate(ast.l, imm, fuel - 1) IN
            IF ~a.ok THEN a
            ELSE LET b == evaluate(ast.r, imm, fuel - 1) IN
                 IF ~b.ok THEN b ELSE ApplyOperator(ast.o, a.n, b.n)
      [] ast.k = "Index" ->
            LET idx == evaluate(ast.index, imm, fuel - 1) IN
            IF ~idx.ok THEN idx
            ELSE IF ast.base.k # "Var" THEN Fail("type")
            ELSE LET arr == Lookup(imm, ast.base.name) IN
                 IF ~arr.some THEN Fail("undefined")
                 ELSE IF arr.v.t # "Array" THEN Fail("type")
                 ELSE IF idx.n < 0 \/ idx.n >= Len(arr.v.elems) THEN Fail("index")
                 ELSE as_int(arr.v.elems[idx.n + 1], imm, fuel - 1)
      [] ast.k = "FieldAccess" ->
            LET obj == eval_value(ast.base, imm, fuel - 1) IN
            IF ~obj.ok THEN obj
            ELSE IF obj.v.t # "StructRef" THEN Fail("type")
            ELSE LET fields == heap[obj.v.id + 1].fields IN
                 IF ast.field \notin DOMAIN fields THEN Fail("undefined")
                 ELSE IF fields[ast.field].t = "LazyInteger"
                 THEN eval_reactive_field(obj.v.id, fields[ast.field].ast, imm, fuel - 1)
                 ELSE as_int(fields[ast.field], imm, fuel - 1)
      [] OTHER -> Fail("type")

\* fn eval_value(&mut self, ast: AST) -> Type
eval_value(ast, imm, fuel) ==
    IF fuel = 0 THEN Fail("stack overflow")
    ELSE CASE ast.k = "Number" -> OkV(Integer(ast.n))
      [] ast.k = "Var" ->
            LET v == Lookup(imm, ast.name) IN
            IF ~v.some THEN Fail("undefined") ELSE OkV(v.v)
      [] ast.k = "FieldAccess" ->
            LET obj == eval_value(ast.base, imm, fuel - 1) IN
            IF ~obj.ok THEN obj
            ELSE IF obj.v.t # "StructRef" THEN Fail("type")
            ELSE LET fields == heap[obj.v.id + 1].fields IN
                 IF ast.field \notin DOMAIN fields THEN Fail("undefined")
                 ELSE IF fields[ast.field].t = "LazyInteger"
                 THEN LET n == eval_reactive_field(obj.v.id, fields[ast.field].ast,
                                                   imm, fuel - 1) IN
                      IF ~n.ok THEN n ELSE OkV(Integer(n.n))
                 ELSE OkV(fields[ast.field])
      [] ast.k = "Index" ->
            LET idx == evaluate(ast.index, imm, fuel - 1) IN
            IF ~idx.ok THEN idx
            ELSE LET arr == eval_value(ast.base, imm, fuel - 1) IN
                 IF ~arr.ok THEN arr
                 ELSE IF arr.v.t # "Array" THEN Fail("type")
                 ELSE IF idx.n < 0 \/ idx.n >= Len(arr.v.elems) THEN Fail("index")
                 ELSE OkV(arr.v.elems[idx.n + 1])
      [] ast.k = "Operation" ->
            LET n == evaluate(ast, imm, fuel - 1) IN
            IF ~n.ok THEN n ELSE OkV(Integer(n.n))
      [] OTHER -> Fail("type")

\* a load that hands the stored value on as it is
load_value_raw(v, imm) == OkV(v)

\* fn load_value(&mut self, v: Type) -> Type
load_value(v, imm) ==
    IF v.t = "LazyInteger"
    THEN LET n == evaluate(v.ast, imm, StackLimit) IN
         IF ~n.ok THEN n ELSE OkV(Integer(n.n))
    ELSE OkV(v)

\* ---- freezing -------------------------------------------------------------------
\* fn freeze_ast(&self, ast: Box<AST>) -> Box<AST>: a variable bound to an
\* Integer in an immutable scope becomes that number, every other stays a variable
RECURSIVE freeze_ast(_, _)
freeze_ast(ast, imm) ==
    CASE ast.k = "Var" ->
            LET v == find_immutable(imm, ast.name) IN
            IF v.some /\ v.v.t = "Integer" THEN Number(v.v.n) ELSE ast
      [] ast.k = "Number" -> ast
      [] ast.k = "Operation" ->
            Operation(freeze_ast(ast.l, imm), ast.o, freeze_ast(ast.r, imm))
      [] ast.k = "Index" -> Index(freeze_ast(ast.base, imm), freeze_ast(ast.index, imm))
      [] ast.k = "FieldAccess" -> FieldAccess(freeze_ast(ast.base, imm), ast.field)
      [] OTHER -> ast

\* ---- struct instantiation ---------------------------------------------------------
\* the loop of instantiate_struct over the fields from position i on;
\* [ok, map, imm] or the panic of an initialiser
RECURSIVE InstantiateFields(_, _, _, _)
InstantiateFields(fields, i, map, imms) ==
    IF i > Len(fields) THEN [ok |-> TRUE, map |-> map, immutables |-> imms]
    ELSE LET name == fields[i].name
             init == fields[i].init
    IN CASE init.kind = "None" ->
               InstantiateFields(fields, i + 1, Insert(map, name, Integer(0)), imms)
         [] init.kind = "Mutable" ->
               LET n == evaluate(init.ast, immutable_stack, StackLimit) IN
               IF ~n.ok THEN n
               ELSE InstantiateFields(fields, i + 1, Insert(map, name, Integer(n.n)), imms)
         [] init.kind = "Immutable" ->
               LET n == evaluate(init.ast, immutable_stack, StackLimit) IN
               IF ~n.ok THEN n
               ELSE InstantiateFields(fields, i + 1, Insert(map, name, Integer(n.n)),
                                      imms \cup {name})
         [] init.kind = "Reactive" ->
               InstantiateFields(fields, i + 1,
                   Insert(map, name, LazyInteger(freeze_ast(init.ast, immutable_stack))),
                   imms)

\* fn instantiate_struct(&mut self, fields) -> Type
instantiate_struct(fields) == InstantiateFields(fields, 1, EmptyMap, {})

(***************************************************************************)
(* The run loop, one action per instruction arm of VM::run                 *)
(***************************************************************************)
\* Instruction (old grammar: reactive expressions, field initialisers and
\* function bodies are ASTs)
IOp(op)                == [op |-> op]
IPush(n)               == [op |-> "Push", n |-> n]
\* Load, Store, StoreImmutable, StoreIndex, NewStruct, FieldGet, FieldSet
INamed(op, name)       == [op |-> op, name |-> name]
\* StoreReactive, StoreIndexReactive, FieldSetReactive
IReactive(op, name, a) == [op |-> op, name |-> name, ast |-> a]
IStoreFunction(name, params, body) ==
    [op |-> "StoreFunction", name |-> name, params |-> params, body |-> body]
ICall(name, argc)      == [op |-> "Call", name |-> name, argc |-> argc]
IStoreStruct(name, fields) == [op |-> "StoreStruct", name |-> name, fields |-> fields]

\* (String, Option<StructFieldInit>): kind is None, Mutable, Immutable or Reactive
Field(name, kind, a)   == [name |-> name, init |-> [kind |-> kind, ast |-> a]]

ArithOps ==
       ("Add" :> "Addition") @@ ("Sub" :> "Subtraction") @@ ("Mul" :> "Multiplication")
    @@ ("Div" :> "Division") @@ ("Greater" :> "Greater") @@ ("Less" :> "Less")
    @@ ("Equal" :> "Equal") @@ ("NotEqual" :> "NotEqual")
    @@ ("GreaterEqual" :> "GreaterEqual") @@ ("LessEqual" :> "LessEqual")
    @@ ("And" :> "And") @@ ("Or" :> "Or")

\* ---- the programs the runs are drawn from -------------------------------------
\* the instructions a top-level program of the family is made of
Alphabet(fam) ==
    LET
        \* r = a * 10
        TenTimesA == Operation(Var("a"), "Multiplication", Number(10))
        \* struct P { x = 3; y ::= x * 2 }
        StructP ==
            << Field("x", "Mutable", Number(3)),
               Field("y", "Reactive", Operation(Var("x"), "Multiplication", Number(2))) >>
        \* struct P { y ::= y + 1 }
        StructSelf == << Field("y", "Reactive", Operation(Var("y"), "Addition", Number(1))) >>
        \* struct P { x ::= y; y ::= x }
        StructMutual == << Field("x", "Reactive", Var("y")), Field("y", "Reactive", Var("x")) >>

        \* function bodies
        BodySquare  == << Return(Operation(Var("n"), "Multiplication", Var("n"))) >>
        BodyStoreT  == << Statement(<< IPush(7), INamed("Store", "t") >>) >>
        BodyPushCtx == << Statement(<< IOp("PushImmutableContext") >>) >>
        BodyRecurse == << Statement(<< IPush(1), ICall("f", 1) >>), ReturnNone >>
        BodyStoreA  == << Statement(<< IPush(7), INamed("Store", "a") >>) >>
        BodyPopCtx  == << Statement(<< IOp("PopImmutableContext") >>) >>
        BodyCallF   == << Statement(<< ICall("f", 0) >>) >>
        \* struct P { x := 3; y = 4 }
        StructImm == << Field("x", "Immutable", Number(3)), Field("y", "Mutable", Number(4)) >>
        \* f(a, b) { return a - b }   f(a) { 7; return a }   f() { 7 }
        \* f(a, b, c) { return c }
        BodyMinus   == << Return(Operation(Var("a"), "Subtraction", Var("b"))) >>
        BodyLeave   == << Statement(<< IPush(7) >>), Return(Var("a")) >>
        BodyNoRet   == << Statement(<< IPush(7) >>) >>
        BodyThird   == << Return(Var("c")) >>
        \* struct P { x = 3; y ::= x * 2; z ::= y + x }
        StructThree ==
            << Field("x", "Mutable", Number(3)),
               Field("y", "Reactive", Operation(Var("x"), "Multiplication", Number(2))),
               Field("z", "Reactive", Operation(Var("y"), "Addition", Var("x"))) >>
        \* struct P { x = 3; y := x + 1 }
        StructSeq ==
            << Field("x", "Mutable", Number(3)),
               Field("y", "Immutable", Operation(Var("x"), "Addition", Number(1))) >>
        \* struct P { y = x + 1; x := 3 }
        StructFwd ==
            << Field("y", "Mutable", Operation(Var("x"), "Addition", Number(1))),
               Field("x", "Immutable", Number(3)) >>
    IN
        CASE fam = "immutable" ->
                { IPush(1), IPush(7), INamed("StoreImmutable", "a"), INamed("Store", "a"), INamed("Load", "a"),
                  IReactive("StoreReactive", "a", Number(5)), INamed("StoreIndex", "a"),
                  IReactive("StoreIndexReactive", "a", Number(5)),
                  IOp("PushImmutableContext"), IOp("PopImmutableContext"),
                  IOp("ClearImmutableContext"),
                  IStoreFunction("f", <<>>, BodyStoreA), ICall("f", 0),
                  INamed("StoreImmutable", "f") }
          [] fam = "reactive" ->
                { IPush(1), IPush(7), INamed("Store", "a"), INamed("StoreImmutable", "a"),
                  IReactive("StoreReactive", "r", TenTimesA), INamed("Load", "r"), IOp("ArrayNew"),
                  IOp("PushImmutableContext"), IOp("PopImmutableContext"),
                  IOp("ClearImmutableContext") }
          [] fam = "struct" ->
                { IStoreStruct("P", StructP), IStoreStruct("P", StructSelf),
                  IStoreStruct("P", StructMutual), INamed("NewStruct", "P"),
                  INamed("Store", "p"), INamed("Store", "q"), INamed("Load", "p"), INamed("Load", "q"),
                  IPush(10), INamed("StoreImmutable", "x"), INamed("FieldSet", "x"),
                  INamed("FieldGet", "y") }
          [] fam = "field" ->
                { IStoreStruct("P", StructImm), IStoreStruct("P", StructP),
                  INamed("NewStruct", "P"), INamed("Store", "p"), INamed("Load", "p"),
                  IPush(10), INamed("FieldSet", "x"), INamed("FieldSet", "y"),
                  IReactive("FieldSetReactive", "x", Number(5)), INamed("FieldGet", "x") }
          [] fam = "lvalue" ->
                { IPush(0), IPush(1), IPush(2), IOp("ArrayNew"), INamed("Store", "a"), INamed("Load", "a"),
                  IOp("ArrayGet"), IOp("ArrayLValue"),
                  IOp("StoreThrough"), IOp("StoreThroughImmutable"),
                  [op |-> "StoreThroughReactive",
                   expr |-> [code |-> << IPush(9) >>, captures |-> <<>>]],
                  IStoreStruct("P", StructImm), INamed("NewStruct", "P"),
                  INamed("FieldLValue", "x"), INamed("FieldLValue", "y") }
          [] fam = "alloc" ->
                { IPush(0), IPush(1), [op |-> "PushChar", n |-> 104], IOp("ArrayNew"),
                  IStoreStruct("P", StructImm), INamed("NewStruct", "P"),
                  INamed("Store", "a"), INamed("Load", "a"),
                  ICall("internal_file_read", 1), ICall("internal_buf_new", 1),
                  ICall("internal_buf_push_char", 2), ICall("internal_buf_to_string", 1),
                  ICall("internal_vec_new", 1), ICall("internal_vec_push", 2),
                  ICall("internal_vec_pop", 1) }
          [] fam = "string" ->
                { IPush(0), [op |-> "PushChar", n |-> 104],
                  INamed("Store", "a"), INamed("Load", "a"),
                  ICall("internal_vec_new", 1), ICall("internal_vec_push", 2),
                  ICall("internal_buf_new", 1), ICall("internal_buf_push_char", 2),
                  ICall("internal_buf_push_str", 2), ICall("internal_buf_to_string", 1),
                  ICall("internal_buf_write_file", 2), ICall("internal_file_read", 1),
                  ICall("internal_file_write", 2), ICall("internal_file_exists", 1),
                  ICall("internal_file_remove", 1) }
          [] fam = "init" ->
                { IStoreStruct("P", StructSeq), IStoreStruct("P", StructFwd),
                  INamed("NewStruct", "P"), IPush(10), INamed("Store", "x"),
                  INamed("StoreImmutable", "x"), INamed("Store", "p"), INamed("Load", "p"),
                  INamed("FieldGet", "x"), INamed("FieldGet", "y"),
                  IOp("PushImmutableContext"), IOp("PopImmutableContext") }
          [] fam = "determ" ->
                { IStoreStruct("P", StructThree), INamed("NewStruct", "P"),
                  INamed("Store", "p"), INamed("Load", "p"), IPush(10),
                  INamed("FieldSet", "x"), INamed("FieldGet", "y"), INamed("FieldGet", "z"),
                  IOp("Println") }
          [] fam = "overwrite" ->
                { IPush(1), IPush(7), INamed("Store", "a"), INamed("Store", "r"),
                  IReactive("StoreReactive", "r", TenTimesA), INamed("Load", "r"),
                  IStoreStruct("P", StructP), INamed("NewStruct", "P"),
                  INamed("Store", "p"), INamed("Load", "p"),
                  INamed("FieldSet", "x"), INamed("FieldSet", "y"), INamed("FieldGet", "y") }
          [] fam = "forced" ->
                { IPush(0), IPush(1), INamed("Store", "a"),
                  IReactive("StoreReactive", "r", TenTimesA), INamed("Load", "r"),
                  IOp("ArrayNew"), INamed("Store", "v"), INamed("Load", "v"),
                  IReactive("StoreIndexReactive", "v", TenTimesA), IOp("ArrayGet"),
                  IStoreStruct("P", StructP), INamed("NewStruct", "P"),
                  INamed("FieldGet", "y") }
          [] fam = "escape" ->
                { IPush(0), IStoreStruct("P", StructImm), INamed("NewStruct", "P"),
                  INamed("FieldLValue", "x"), IPush(1), IOp("ArrayNew"), IOp("ArrayLValue"),
                  ICall("internal_vec_new", 1), ICall("internal_vec_push", 2),
                  ICall("internal_vec_pop", 1) }
          [] fam = "bind" ->
                { IPush(1), IPush(2), IPush(3),
                  IStoreFunction("f", <<"a", "b">>, BodyMinus),
                  IStoreFunction("f", <<"a">>, BodyLeave),
                  IStoreFunction("f", <<>>, BodyNoRet),
                  IStoreFunction("f", <<"a", "b", "c">>, BodyThird),
                  ICall("f", 0), ICall("f", 1), ICall("f", 2), ICall("f", 3) }
          [] fam = "call" ->
                { IPush(5), IStoreFunction("f", <<"n">>, BodySquare),
                  IStoreFunction("f", <<>>, BodyStoreT),
                  IStoreFunction("f", <<"n">>, BodyPushCtx),
                  IStoreFunction("f", <<"n">>, BodyRecurse),
                  IStoreFunction("f", <<"n">>, BodyPopCtx),
                  IStoreFunction("g", <<>>, BodyCallF), ICall("g", 0),
                  ICall("f", 0), ICall("f", 1), ICall("f", 2),
                  INamed("Load", "n"), INamed("Load", "t"), IOp("Println") }
          [] OTHER -> {}

\* instructions of the top-level program; counts nested instructions too
StepLimit(fam) ==
    CASE fam = "immutable" -> MaxStepsImmutable
      [] fam = "reactive"  -> MaxStepsReactive
      [] fam = "struct"    -> MaxStepsStruct
      [] fam = "field"     -> MaxStepsField
      [] fam = "call"      -> MaxStepsCall
      [] fam = "lvalue"    -> MaxStepsLValue
      [] fam = "alloc"     -> MaxStepsAlloc
      [] fam = "bind"      -> MaxStepsBind
      [] fam = "overwrite" -> MaxStepsOverwrite
      [] fam = "escape"    -> MaxStepsEscape
      [] fam = "forced"    -> MaxStepsForced
      [] fam = "determ"    -> MaxStepsDeterm
      [] fam = "jump"      -> MaxStepsJump
      [] fam = "init"      -> MaxStepsInit
      [] fam = "string"    -> MaxStepsString
      [] OTHER -> 0

\* the label map as it would be with `entry(name).or_insert(i)`: the first Label wins
build_labels_first(vec) ==
    LET at(name) == { k \in 1..Len(vec) : vec[k].op = "Label" /\ vec[k].name = name }
    IN [name \in { vec[k].name : k \in { j \in 1..Len(vec) : vec[j].op = "Label" } } |->
           (CHOOSE k \in at(name) : \A j \in at(name) : k <= j) - 1]

\* VM::build_labels: the index of each Label, a later one replacing an earlier
build_labels(vec) ==
    LET at(name) == { k \in 1..Len(vec) : vec[k].op = "Label" /\ vec[k].name = name }
    IN [name \in { vec[k].name : k \in { j \in 1..Len(vec) : vec[j].op = "Label" } } |->
           (CHOOSE k \in at(name) : \A j \in at(name) : j <= k) - 1]

\* ---- fetch ------------------------------------------------------------------------
\* run() at the top level: the program is an input, read one instruction at a time
Streaming == activations = <<>>

Top == activations[Len(activations)]

\* the program does not push onto an operand stack MaxStack deep
Offered(i) ==
    /\ (i.op \in {"Push", "PushChar", "Load", "NewStruct"}) =>
           Len(stack) < (IF family = "bind" THEN MaxStackBind ELSE MaxStack)
    /\ (i.op = "ArrayNew" /\ family # "alloc") => Len(array_heap) < MaxArrays /\ heap = <<>>
    \* and, when it writes through LValues, allocates either structs or arrays
    /\ (i.op = "NewStruct") => Len(heap) < MaxHeap /\ (family = "lvalue" => array_heap = <<>>)
    \* and allocates no more than MaxHeap entries in a heap
    /\ (i.op = "ArrayNew" /\ family = "alloc") => Len(array_heap) < MaxHeap
    /\ (i.op = "Call" /\ i.name \in {"internal_file_read", "internal_buf_to_string"})
            => Len(array_heap) < MaxHeap
    /\ (i.op = "Call" /\ i.name = "internal_buf_new") => Len(buffer_heap) < MaxHeap
    /\ (i.op = "Call" /\ i.name = "internal_vec_new") => Len(vec_heap) < MaxHeap
    /\ (i.op = "PushImmutableContext") => Len(immutable_stack) < MaxScopes
    \* and, when it works on arrays, keeps the array in the variable it stored it in
    /\ (i.op = "Store" /\ family = "lvalue") => i.name \notin DOMAIN environment
    /\ (i.op = "StoreStruct" /\ family \in {"lvalue", "alloc", "overwrite", "forced", "escape"}) =>
           i.name \notin DOMAIN struct_defs

\* let instr = self.code[self.pointer].clone(): what run() can fetch next
Fetchable ==
    IF status # "running" THEN {}
    ELSE IF Streaming /\ code # <<>>
    THEN IF pointer < Len(code) /\ (family = "jump" => steps < StepLimit(family))
         THEN { code[pointer + 1] } ELSE {}
    ELSE IF steps >= StepLimit(family) THEN {}
    ELSE IF Streaming THEN { i \in Alphabet(family) : Offered(i) }
    ELSE IF Top.in_stmt /\ pointer < Len(code) THEN { code[pointer + 1] }
    ELSE {}

\* VM.call_stack: one frame per user function call in progress, pushed when
\* the call enters the function and popped when it returns, innermost last
call_stack ==
    [k \in 1..Len(activations) |-> [function_name |-> activations[k].function_name]]

\* VM::runtime_error: the lines printed, then the exit code of the process
runtime_error(message) ==
    << [line |-> "Runtime error: {message}", message |-> message],
       [line |-> "Stack trace (most recent call last):"] >>
    \o [k \in 1..Len(call_stack) |->
           [line |-> "  at {}()",
            function_name |-> call_stack[Len(call_stack) + 1 - k].function_name]]
    \o << [exit |-> 1] >>

\* a runtime failure (panic!(), unwrap() of None, index out of bounds, stack
\* overflow) ends the process: the error and the stack trace are printed and
\* the state is kept as the failure found it
Crash(why) ==
    /\ status' = "panicked"
    /\ error' = why
    /\ output' = output \o runtime_error(why)
    /\ UNCHANGED <<stack, environment, immutable_stack, heap, struct_defs, code, labels,
                   pointer, activations, family, bound_here, captured, svars, hvars, pvars>>

\* the panic of the instruction i that run() has fetched
Panic(i, why) ==
    /\ Crash(why)
    /\ instr' = i
    /\ steps' = steps + 1

\* the instruction is done: self.pointer += 1
Advance(i) ==
    /\ status' = "running"
    /\ error' = error
    /\ instr' = i
    /\ steps' = steps + 1
    /\ pointer' = pointer + 1
    /\ UNCHANGED <<code, labels, family, svars, pvars>>

\* the same for an instruction that leaves the arrays, vecs and buffers alone
Done(i) == Advance(i) /\ UNCHANGED hvars

\* this step is run() fetching and executing the instruction i
Fetched(i) == steps' = steps + 1 /\ instr' = i

\* Vec::pop on the operand stack
Peek(k) == stack[Len(stack) - k]              \* k = 0: the top
Popped(k) == SubSeq(stack, 1, Len(stack) - k)  \* the stack without its top k

Front(s) == SubSeq(s, 1, Len(s) - 1)
SetLast(s, v) == [s EXCEPT ![Len(s)] = v]

\* Instruction::Push(n)
DoPush ==
    \E i \in Fetchable :
        /\ i.op = "Push"
        /\ stack' = Append(stack, Integer(i.n))
        /\ Done(i)
        /\ UNCHANGED <<environment, immutable_stack, heap, struct_defs, activations,
                       output, bound_here, captured>>

\* Instruction::Load(name)
DoLoad ==
    \E i \in Fetchable :
        /\ i.op = "Load"
        /\ LET v == Lookup(immutable_stack, i.name) IN
           IF ~v.some THEN Panic(i, "undefined")
           ELSE LET out == load_value(v.v, immutable_stack) IN
                IF ~out.ok THEN Panic(i, out.err)
                ELSE /\ stack' = Append(stack, out.v)
                     /\ Done(i)
                     /\ UNCHANGED <<environment, immutable_stack, heap, struct_defs,
                                    activations, output, bound_here, captured>>

\* a Store that leaves a reactive binding in place
DoStore_keeps_reactive ==
    \E i \in Fetchable :
        /\ i.op = "Store"
        /\ IF immutable_exists(immutable_stack, i.name) THEN Panic(i, "immutable")
           ELSE IF stack = <<>> THEN Panic(i, "stack underflow")
           ELSE /\ environment' =
                     IF /\ i.name \in DOMAIN environment
                        /\ environment[i.name].t = "LazyInteger"
                     THEN environment
                     ELSE Insert(environment, i.name, Peek(0))
                /\ stack' = Popped(1)
                /\ Done(i)
                /\ UNCHANGED <<immutable_stack, heap, struct_defs, activations, output,
                               bound_here, captured>>

\* Instruction::Store(name)
DoStore ==
    \E i \in Fetchable :
        /\ i.op = "Store"
        /\ IF immutable_exists(immutable_stack, i.name) THEN Panic(i, "immutable")
           ELSE IF stack = <<>> THEN Panic(i, "stack underflow")
           ELSE /\ environment' = Insert(environment, i.name, Peek(0))
                /\ stack' = Popped(1)
                /\ Done(i)
                /\ UNCHANGED <<immutable_stack, heap, struct_defs, activations, output,
                               bound_here, captured>>

\* Instruction::StoreReactive(name, ast)
DoStoreReactive ==
    \E i \in Fetchable :
        /\ i.op = "StoreReactive"
        /\ IF immutable_exists(immutable_stack, i.name) THEN Panic(i, "immutable")
           ELSE /\ environment' =
                       Insert(environment, i.name,
                              LazyInteger(freeze_ast(i.ast, immutable_stack)))
                /\ captured' =
                       LET v == Lookup(immutable_stack, "a") IN
                       IF ~v.some THEN None
                       ELSE LET n == as_int(v.v, immutable_stack, StackLimit) IN
                            IF ~n.ok THEN None
                            ELSE [some |-> TRUE, v |-> n.n, kind |-> v.v.t,
                                  immutable |-> immutable_exists(immutable_stack, "a")]
                /\ Done(i)
                /\ UNCHANGED <<stack, immutable_stack, heap, struct_defs, activations,
                               output, bound_here>>

\* a StoreImmutable that refuses a name bound in any scope, not only the topmost
DoStoreImmutable_any_scope ==
    \E i \in Fetchable :
        /\ i.op = "StoreImmutable"
        /\ IF stack = <<>> THEN Panic(i, "stack underflow")
           ELSE IF immutable_stack = <<>> THEN Panic(i, "no scope")
           ELSE IF immutable_exists(immutable_stack, i.name) THEN Panic(i, "immutable")
           ELSE /\ immutable_stack' =
                       SetLast(immutable_stack, Insert(immutable_stack[Len(immutable_stack)], i.name, Peek(0)))
                /\ bound_here' = SetLast(bound_here, Insert(bound_here[Len(bound_here)], i.name, Peek(0)))
                /\ stack' = Popped(1)
                /\ Done(i)
                /\ UNCHANGED <<environment, heap, struct_defs, activations, output, captured>>

\* Instruction::StoreImmutable(name)
DoStoreImmutable ==
    \E i \in Fetchable :
        /\ i.op = "StoreImmutable"
        /\ IF stack = <<>> THEN Panic(i, "stack underflow")
           ELSE IF immutable_stack = <<>> THEN Panic(i, "no scope")
           ELSE IF i.name \in DOMAIN immutable_stack[Len(immutable_stack)] THEN Panic(i, "immutable")
           ELSE /\ immutable_stack' =
                       SetLast(immutable_stack, Insert(immutable_stack[Len(immutable_stack)], i.name, Peek(0)))
                /\ bound_here' = SetLast(bound_here, Insert(bound_here[Len(bound_here)], i.name, Peek(0)))
                /\ stack' = Popped(1)
                /\ Done(i)
                /\ UNCHANGED <<environment, heap, struct_defs, activations, output, captured>>

\* pop_int twice: a (the top) then b
PopInts ==
    IF Len(stack) < 1 THEN Fail("stack underflow")
    ELSE LET a == as_int(Peek(0), immutable_stack, StackLimit) IN
         IF ~a.ok THEN a
         ELSE IF Len(stack) < 2 THEN Fail("stack underflow")
         ELSE LET b == as_int(Peek(1), immutable_stack, StackLimit) IN
              IF ~b.ok THEN b ELSE [ok |-> TRUE, a |-> a.n, b |-> b.n]

\* Instruction::Add .. Instruction::Or: push b <op> a
DoArith ==
    \E i \in Fetchable :
        /\ i.op \in DOMAIN ArithOps
        /\ LET p == PopInts IN
           IF ~p.ok THEN Panic(i, p.err)
           ELSE LET r == ApplyOperator(ArithOps[i.op], p.b, p.a) IN
                IF ~r.ok THEN Panic(i, r.err)
                ELSE /\ stack' = Append(Popped(2), Integer(r.n))
                     /\ Done(i)
                     /\ UNCHANGED <<environment, immutable_stack, heap, struct_defs,
                                    activations, output, bound_here, captured>>

\* Instruction::Print and Instruction::Println
DoOutput ==
    \E i \in Fetchable :
        /\ i.op \in {"Print", "Println"}
        /\ IF stack = <<>> THEN Panic(i, "stack underflow")
           ELSE LET n == as_int(Peek(0), immutable_stack, StackLimit) IN
                IF ~n.ok THEN Panic(i, n.err)
                ELSE /\ output' = Append(output, n.n)
                     /\ stack' = Popped(1)
                     /\ Done(i)
                     /\ UNCHANGED <<environment, immutable_stack, heap, struct_defs,
                                    activations, bound_here, captured>>

\* Instruction::ArrayNew
DoArrayNew ==
    \E i \in Fetchable :
        /\ i.op = "ArrayNew"
        /\ IF stack = <<>> THEN Panic(i, "stack underflow")
           ELSE LET n == as_int(Peek(0), immutable_stack, StackLimit) IN
                IF ~n.ok THEN Panic(i, n.err)
                ELSE IF n.n < 0 THEN Panic(i, "capacity overflow")
                ELSE /\ stack' = Append(Popped(1), Array([k \in 1..n.n |-> Integer(0)]))
                     /\ Done(i)
                     /\ UNCHANGED <<environment, immutable_stack, heap, struct_defs,
                                    activations, output, bound_here, captured>>

\* Instruction::ArrayGet
DoArrayGet ==
    \E i \in Fetchable :
        /\ i.op = "ArrayGet"
        /\ IF stack = <<>> THEN Panic(i, "stack underflow")
           ELSE LET idx == as_int(Peek(0), immutable_stack, StackLimit) IN
                IF ~idx.ok THEN Panic(i, idx.err)
                ELSE IF Len(stack) < 2 THEN Panic(i, "stack underflow")
                ELSE IF Peek(1).t # "Array" THEN Panic(i, "type")
                ELSE IF idx.n < 0 \/ idx.n >= Len(Peek(1).elems) THEN Panic(i, "index")
                ELSE LET out == load_value(Peek(1).elems[idx.n + 1], immutable_stack) IN
                     IF ~out.ok THEN Panic(i, out.err)
                     ELSE /\ stack' = Append(Popped(2), out.v)
                          /\ Done(i)
                          /\ UNCHANGED <<environment, immutable_stack, heap, struct_defs,
                                         activations, output, bound_here, captured>>

\* the array write StoreIndex and StoreIndexReactive end with
WriteIndex(i, idx, val, rest) ==
    IF i.name \notin DOMAIN environment THEN Panic(i, "undefined")
    ELSE IF environment[i.name].t # "Array" THEN Panic(i, "type")
    ELSE IF idx < 0 \/ idx >= Len(environment[i.name].elems) THEN Panic(i, "index")
    ELSE /\ environment' =
                Insert(environment, i.name,
                       Array([environment[i.name].elems EXCEPT ![idx + 1] = val]))
         /\ stack' = rest
         /\ Done(i)
         /\ UNCHANGED <<immutable_stack, heap, struct_defs, activations, output,
                        bound_here, captured>>

\* Instruction::StoreIndex(name)
DoStoreIndex ==
    \E i \in Fetchable :
        /\ i.op = "StoreIndex"
        /\ IF immutable_exists(immutable_stack, i.name) THEN Panic(i, "immutable")
           ELSE IF Len(stack) < 2 THEN Panic(i, "stack underflow")
           ELSE LET idx == as_int(Peek(1), immutable_stack, StackLimit) IN
                IF ~idx.ok THEN Panic(i, idx.err)
                ELSE WriteIndex(i, idx.n, Peek(0), Popped(2))

\* Instruction::StoreIndexReactive(name, ast)
DoStoreIndexReactive ==
    \E i \in Fetchable :
        /\ i.op = "StoreIndexReactive"
        /\ IF immutable_exists(immutable_stack, i.name) THEN Panic(i, "immutable")
           ELSE IF Len(stack) < 1 THEN Panic(i, "stack underflow")
           ELSE LET idx == as_int(Peek(0), immutable_stack, StackLimit) IN
                IF ~idx.ok THEN Panic(i, idx.err)
                ELSE WriteIndex(i, idx.n,
                                LazyInteger(freeze_ast(i.ast, immutable_stack)), Popped(1))

\* Instruction::StoreFunction(name, params, body)
DoStoreFunction ==
    \E i \in Fetchable :
        /\ i.op = "StoreFunction"
        /\ environment' = Insert(environment, i.name, Function(i.params, i.body))
        /\ Done(i)
        /\ UNCHANGED <<stack, immutable_stack, heap, struct_defs, activations, output,
                       bound_here, captured>>

\* the pairing without `args.reverse()`: the first formal gets the argument
\* popped first
RECURSIVE ZipScope_unreversed(_, _)
ZipScope_unreversed(params, args) ==
    IF params = <<>> \/ args = <<>> THEN EmptyMap
    ELSE Insert(ZipScope_unreversed(Tail(params), Front(args)),
                Head(params), args[Len(args)])

\* for (p, v) in params.into_iter().zip(args): the scope of a call
RECURSIVE ZipScope(_, _)
ZipScope(params, args) ==
    IF params = <<>> \/ args = <<>> THEN EmptyMap
    ELSE LET n == IF Len(params) < Len(args) THEN Len(params) ELSE Len(args)
         IN Insert(ZipScope(SubSeq(params, 1, n - 1), SubSeq(args, 1, n - 1)),
                   params[n], args[n])

\* Instruction::Call(name, argc) up to the loop of call_function over the body
DoCall ==
    \E i \in Fetchable :
        /\ i.op = "Call"
        /\ Len(activations) < MaxFrames
        /\ IF Len(stack) < i.argc THEN Panic(i, "stack underflow")
           ELSE IF i.name \notin DOMAIN environment THEN Panic(i, "undefined")
           ELSE IF environment[i.name].t # "Function" THEN Panic(i, "type")
           ELSE LET f == environment[i.name]
                    args == SubSeq(stack, Len(stack) - i.argc + 1, Len(stack))
                IN /\ stack' = Popped(i.argc)
                   /\ immutable_stack' = Append(immutable_stack, ZipScope(f.params, args))
                   /\ bound_here' = Append(bound_here, EmptyMap)
                   /\ activations' = Append(activations,
                          [function_name |-> i.name, params |-> f.params, argc |-> i.argc,
                           rest |-> f.body, in_stmt |-> FALSE, saved_code |-> <<>>,
                           saved_labels |-> EmptyMap, saved_pointer |-> 0, stack_len |-> 0,
                           call |-> i,
                           \* history: the operand stack and the scopes the call found
                           entry_stack |-> stack, entry_scopes |-> immutable_stack,
                           \* and the code vector, label map and pointer of the caller
                           entry_code |-> code, entry_labels |-> labels,
                           entry_pointer |-> pointer])
                   /\ status' = "running"
                   /\ instr' = i
                   /\ steps' = steps + 1
                   /\ UNCHANGED <<environment, heap, struct_defs, code, labels, pointer,
                                  error, output, family, captured, svars, hvars, pvars>>

\* a body statement's stack kept as it is left
truncate_not(s, len) == s

\* self.stack.truncate(stack_len)
truncate(s, len) == IF Len(s) > len THEN SubSeq(s, 1, len) ELSE s

\* execute_ast with `let saved_labels = self.labels.clone()`: the statement runs
\* under the label map of the caller
BodyStatement_caller_labels ==
    /\ status = "running"
    /\ activations # <<>>
    /\ ~Top.in_stmt
    /\ Top.rest # <<>>
    /\ Head(Top.rest).k # "Return"
    /\ activations' = SetLast(activations,
           [Top EXCEPT !.rest = Tail(Top.rest), !.in_stmt = TRUE, !.saved_code = code,
                       !.saved_labels = labels, !.saved_pointer = pointer, !.stack_len = Len(stack)])
    /\ code' = compile(Head(Top.rest))
    /\ pointer' = 0
    /\ UNCHANGED <<stack, environment, immutable_stack, heap, struct_defs, status, error,
                   instr, steps, output, family, bound_here, captured, svars, hvars, pvars,
                   labels>>

\* call_function: `other => self.execute_ast(other)`, up to self.run()
BodyStatement ==
    /\ status = "running"
    /\ activations # <<>>
    /\ ~Top.in_stmt
    /\ Top.rest # <<>>
    /\ Head(Top.rest).k # "Return"
    /\ activations' = SetLast(activations,
           [Top EXCEPT !.rest = Tail(Top.rest), !.in_stmt = TRUE, !.saved_code = code,
                       !.saved_labels = labels, !.saved_pointer = pointer, !.stack_len = Len(stack)])
    /\ code' = compile(Head(Top.rest))
    /\ labels' = build_labels(code')
    /\ pointer' = 0
    /\ UNCHANGED <<stack, environment, immutable_stack, heap, struct_defs, status, error,
                   instr, steps, output, family, bound_here, captured, svars, hvars, pvars>>

\* execute_ast after self.run() has returned: truncate the stack, restore the code
RunEnd ==
    /\ status = "running"
    /\ activations # <<>>
    /\ Top.in_stmt
    /\ pointer >= Len(code)
    /\ stack' = truncate(stack, Top.stack_len)
    /\ code' = Top.saved_code
    /\ labels' = Top.saved_labels
    /\ pointer' = Top.saved_pointer
    /\ activations' = SetLast(activations, [Top EXCEPT !.in_stmt = FALSE])
    /\ UNCHANGED <<environment, immutable_stack, heap, struct_defs, status, error, instr,
                   steps, output, family, bound_here, captured, svars, hvars, pvars>>

\* call_function from AST::Return (or the end of the body) on, and the rest of
\* Instruction::Call: the scope on top is popped, the result pushed
FunctionReturn ==
    /\ status = "running"
    /\ activations # <<>>
    /\ ~Top.in_stmt
    /\ IF Top.rest = <<>> THEN TRUE ELSE Head(Top.rest).k = "Return"
    /\ LET ret == IF Top.rest # <<>> /\ Head(Top.rest).has
                  THEN eval_value(Head(Top.rest).expr, immutable_stack, StackLimit)
                  ELSE OkV(Integer(0))
       IN IF ~ret.ok THEN Crash(ret.err) /\ UNCHANGED <<instr, steps>>
          ELSE /\ immutable_stack' =
                      IF immutable_stack = <<>> THEN <<>> ELSE Front(immutable_stack)
               /\ bound_here' = IF bound_here = <<>> THEN <<>> ELSE Front(bound_here)
               /\ stack' = Append(stack, ret.v)
               /\ activations' = Front(activations)
               /\ pointer' = pointer + 1
               /\ UNCHANGED <<environment, heap, struct_defs, code, labels, status, error,
                              instr, steps, output, family, captured, svars, hvars, pvars>>

\* Instruction::StoreStruct(name, fields)
DoStoreStruct ==
    \E i \in Fetchable :
        /\ i.op = "StoreStruct"
        /\ struct_defs' = Insert(struct_defs, i.name, i.fields)
        /\ Done(i)
        /\ UNCHANGED <<stack, environment, immutable_stack, heap, activations, output,
                       bound_here, captured>>

\* Instruction::NewStruct(name)
DoNewStruct ==
    \E i \in Fetchable :
        /\ i.op = "NewStruct"
        /\ IF i.name \notin DOMAIN struct_defs THEN Panic(i, "undefined")
           ELSE LET inst == instantiate_struct(struct_defs[i.name]) IN
                IF ~inst.ok THEN Panic(i, inst.err)
                ELSE /\ heap' = Append(heap, [fields |-> inst.map,
                                              immutables |-> inst.immutables])
                     /\ stack' = Append(stack, StructRef(Len(heap)))
                     /\ Done(i)
                     /\ UNCHANGED <<environment, immutable_stack, struct_defs, activations,
                                    output, bound_here, captured>>

\* Instruction::FieldGet(field)
DoFieldGet ==
    \E i \in Fetchable :
        /\ i.op = "FieldGet"
        /\ IF stack = <<>> THEN Panic(i, "stack underflow")
           ELSE IF Peek(0).t # "StructRef" THEN Panic(i, "type")
           ELSE LET id == Peek(0).id
                    fields == heap[id + 1].fields
                IN IF i.name \notin DOMAIN fields THEN Panic(i, "undefined")
                   ELSE LET out == IF fields[i.name].t = "LazyInteger"
                                   THEN eval_reactive_field(id, fields[i.name].ast,
                                                            immutable_stack, StackLimit)
                                   ELSE OkV(fields[i.name])
                        IN IF ~out.ok THEN Panic(i, out.err)
                           ELSE /\ stack' = Append(Popped(1),
                                        IF fields[i.name].t = "LazyInteger"
                                        THEN Integer(out.n) ELSE out.v)
                                /\ Done(i)
                                /\ UNCHANGED <<environment, immutable_stack, heap,
                                               struct_defs, activations, output,
                                               bound_here, captured>>

\* self.heap[id].fields.insert(field, v)
SetField(id, field, v) ==
    [heap EXCEPT ![id + 1].fields = Insert(heap[id + 1].fields, field, v)]

\* a FieldSet that does not consult the instance's immutables
DoFieldSet_unchecked ==
    \E i \in Fetchable :
        /\ i.op = "FieldSet"
        /\ IF Len(stack) < 2 THEN Panic(i, "stack underflow")
           ELSE IF Peek(1).t # "StructRef" THEN Panic(i, "type")
           ELSE LET stored == load_value(Peek(0), immutable_stack) IN
                IF ~stored.ok THEN Panic(i, stored.err)
                ELSE /\ heap' = SetField(Peek(1).id, i.name, stored.v)
                     /\ stack' = Popped(2)
                     /\ Done(i)
                     /\ UNCHANGED <<environment, immutable_stack, struct_defs, activations,
                                    output, bound_here, captured>>

\* Instruction::FieldSet(field)
DoFieldSet ==
    \E i \in Fetchable :
        /\ i.op = "FieldSet"
        /\ IF Len(stack) < 2 THEN Panic(i, "stack underflow")
           ELSE IF Peek(1).t # "StructRef" THEN Panic(i, "type")
           ELSE IF i.name \in heap[Peek(1).id + 1].immutables THEN Panic(i, "immutable")
           ELSE LET stored == load_value(Peek(0), immutable_stack) IN
                IF ~stored.ok THEN Panic(i, stored.err)
                ELSE /\ heap' = SetField(Peek(1).id, i.name, stored.v)
                     /\ stack' = Popped(2)
                     /\ Done(i)
                     /\ UNCHANGED <<environment, immutable_stack, struct_defs, activations,
                                    output, bound_here, captured>>

\* Instruction::FieldSetReactive(field, ast)
DoFieldSetReactive ==
    \E i \in Fetchable :
        /\ i.op = "FieldSetReactive"
        /\ IF stack = <<>> THEN Panic(i, "stack underflow")
           ELSE IF Peek(0).t # "StructRef" THEN Panic(i, "type")
           ELSE IF i.name \in heap[Peek(0).id + 1].immutables THEN Panic(i, "immutable")
           ELSE /\ heap' = SetField(Peek(0).id, i.name,
                                    LazyInteger(freeze_ast(i.ast, immutable_stack)))
                /\ stack' = Popped(1)
                /\ Done(i)
                /\ UNCHANGED <<environment, immutable_stack, struct_defs, activations,
                               output, bound_here, captured>>

\* Instruction::PushImmutableContext
DoPushImmutableContext ==
    \E i \in Fetchable :
        /\ i.op = "PushImmutableContext"
        /\ immutable_stack' = Append(immutable_stack, EmptyMap)
        /\ bound_here' = Append(bound_here, EmptyMap)
        /\ Done(i)
        /\ UNCHANGED <<stack, environment, heap, struct_defs, activations, output, captured>>

\* Instruction::PopImmutableContext
DoPopImmutableContext ==
    \E i \in Fetchable :
        /\ i.op = "PopImmutableContext"
        /\ IF Len(immutable_stack) <= 1 THEN Panic(i, "scope underflow")
           ELSE /\ immutable_stack' = Front(immutable_stack)
                /\ bound_here' = Front(bound_here)
                /\ Done(i)
                /\ UNCHANGED <<stack, environment, heap, struct_defs, activations, output,
                               captured>>

\* Instruction::ClearImmutableContext
DoClearImmutableContext ==
    \E i \in Fetchable :
        /\ i.op = "ClearImmutableContext"
        /\ IF immutable_stack = <<>> THEN Panic(i, "no scope")
           ELSE /\ immutable_stack' = SetLast(immutable_stack, EmptyMap)
                /\ Done(i)
                /\ UNCHANGED <<stack, environment, heap, struct_defs, activations, output,
                               bound_here, captured>>

\* run() returns: the top-level program has no further instruction
Halt ==
    /\ status = "running"
    /\ Streaming
    /\ code # <<>> => pointer >= Len(code)
    /\ status' = "halted"
    /\ UNCHANGED <<stack, environment, immutable_stack, heap, struct_defs, code, pointer,
                   labels, activations, error, instr, steps, output, family, bound_here,
                   captured, svars, hvars, pvars>>

(***************************************************************************)
(* The bytecode machine's arrays and indirect stores (src/vm/mod.rs,       *)
(* src/grammar.rs): the instruction arms live in vm/exec.rs, which is not  *)
(* among the sources, and follow the instruction set's description         *)
(***************************************************************************)
\* forcing: a LazyValue is run to a concrete value, any other value is itself.
\* The reactive expressions of the programs here are sequences of Push, whose
\* result is the integer pushed last.
force(v) ==
    IF v.t = "LazyValue" THEN Integer(v.expr.code[Len(v.expr.code)].n) ELSE v

\* Instruction::PushChar(c)
ExecPushChar ==
    \E i \in Fetchable :
        /\ i.op = "PushChar"
        /\ stack' = Append(stack, [t |-> "Char", c |-> i.n])
        /\ Done(i)
        /\ UNCHANGED <<environment, immutable_stack, heap, struct_defs, activations,
                       output, bound_here, captured>>

\* Instruction::ArrayNew: pops the length n >= 0, allocates n times Integer(0)
ExecArrayNew ==
    \E i \in Fetchable :
        /\ i.op = "ArrayNew"
        /\ IF stack = <<>> THEN Panic(i, "stack underflow")
           ELSE IF force(Peek(0)).t # "Integer" THEN Panic(i, "type")
           ELSE IF force(Peek(0)).n < 0 THEN Panic(i, "negative length")
           ELSE /\ array_heap' = Append(array_heap, [k \in 1..force(Peek(0)).n |-> Integer(0)])
                /\ array_immutables' = Append(array_immutables, {})
                /\ stack' = Append(Popped(1), [t |-> "ArrayRef", id |-> Len(array_heap)])
                /\ Advance(i)
                /\ UNCHANGED <<environment, immutable_stack, heap, struct_defs, activations,
                               output, bound_here, captured, vec_heap, vec_immutables,
                               buffer_heap>>

\* Instruction::ArrayGet: pops the index, then the reference; bounds-checked;
\* pushes the forced element
ExecArrayGet ==
    \E i \in Fetchable :
        /\ i.op = "ArrayGet"
        /\ IF Len(stack) < 2 THEN Panic(i, "stack underflow")
           ELSE IF force(Peek(0)).t # "Integer" \/ Peek(1).t # "ArrayRef" THEN Panic(i, "type")
           ELSE IF Peek(1).id >= Len(array_heap) THEN Panic(i, "undefined")
           ELSE IF force(Peek(0)).n \notin 0..(Len(array_heap[Peek(1).id + 1]) - 1)
           THEN Panic(i, "bounds")
           ELSE /\ stack' = Append(Popped(2),
                                   force(array_heap[Peek(1).id + 1][force(Peek(0)).n + 1]))
                /\ Done(i)
                /\ UNCHANGED <<environment, immutable_stack, heap, struct_defs, activations,
                               output, bound_here, captured>>

\* Instruction::ArrayLValue: pops the index, then the reference; pushes the
\* ArrayElem LValue, and the VecElem LValue for the reference of a vec
ExecArrayLValue ==
    \E i \in Fetchable :
        /\ i.op = "ArrayLValue"
        /\ IF Len(stack) < 2 THEN Panic(i, "stack underflow")
           ELSE IF force(Peek(0)).t # "Integer" \/ Peek(1).t \notin {"ArrayRef", "VecRef"}
           THEN Panic(i, "type")
           ELSE /\ stack' = Append(Popped(2),
                                   [t |-> "LValue",
                                    target |-> IF Peek(1).t = "VecRef"
                                               THEN [k |-> "VecElem", vec_id |-> Peek(1).id,
                                                     index |-> force(Peek(0)).n]
                                               ELSE [k |-> "ArrayElem", array_id |-> Peek(1).id,
                                                     index |-> force(Peek(0)).n]])
                /\ Done(i)
                /\ UNCHANGED <<environment, immutable_stack, heap, struct_defs, activations,
                               output, bound_here, captured>>

\* Instruction::FieldLValue(field): pops the reference; pushes the StructField
\* LValue
ExecFieldLValue ==
    \E i \in Fetchable :
        /\ i.op = "FieldLValue"
        /\ IF stack = <<>> THEN Panic(i, "stack underflow")
           ELSE IF Peek(0).t # "StructRef" THEN Panic(i, "type")
           ELSE /\ stack' = Append(Popped(1),
                                   [t |-> "LValue",
                                    target |-> [k |-> "StructField", struct_id |-> Peek(0).id,
                                                field |-> i.name]])
                /\ Done(i)
                /\ UNCHANGED <<environment, immutable_stack, heap, struct_defs, activations,
                               output, bound_here, captured>>

\* indirect stores that do not consult the immutable sets
ExecStoreThrough_unchecked ==
    \E i \in Fetchable :
        /\ i.op \in {"StoreThrough", "StoreThroughImmutable", "StoreThroughReactive"}
        /\ LET \* what is popped: the value (none for StoreThroughReactive), then the LValue
               depth == IF i.op = "StoreThroughReactive" THEN 1 ELSE 2
               mark  == i.op = "StoreThroughImmutable"
               t     == stack[Len(stack) - depth + 1].target
               v     == IF i.op = "StoreThroughReactive"
                        THEN [t |-> "LazyValue", expr |-> i.expr,
                              captures |->
                                [n \in { c \in { i.expr.captures[k] : k \in DOMAIN i.expr.captures } :
                                           immutable_exists(immutable_stack, c) }
                                   |-> find_immutable(immutable_stack, n).v]]
                        ELSE Peek(0)
           IN IF Len(stack) < depth THEN Panic(i, "stack underflow")
              ELSE IF stack[Len(stack) - depth + 1].t # "LValue" THEN Panic(i, "type")
              ELSE IF t.k = "ArrayElem"
              THEN IF t.array_id >= Len(array_heap) THEN Panic(i, "undefined")
              ELSE IF t.index \notin 0..(Len(array_heap[t.array_id + 1]) - 1)
              THEN Panic(i, "bounds")
              ELSE /\ array_heap' = [array_heap EXCEPT ![t.array_id + 1][t.index + 1] = v]
                   /\ array_immutables' =
                         IF mark
                         THEN [array_immutables EXCEPT ![t.array_id + 1] = @ \cup {t.index}]
                         ELSE array_immutables
                   /\ stack' = Popped(depth)
                   /\ Advance(i)
                   /\ UNCHANGED <<environment, immutable_stack, heap, struct_defs,
                                  activations, output, bound_here, captured, vec_heap,
                                  vec_immutables, buffer_heap>>
              ELSE IF t.struct_id >= Len(heap) THEN Panic(i, "undefined")
              ELSE /\ heap' = [heap EXCEPT
                                 ![t.struct_id + 1].fields = Insert(@, t.field, v),
                                 ![t.struct_id + 1].immutables =
                                     IF mark THEN @ \cup {t.field} ELSE @]
                   /\ stack' = Popped(depth)
                   /\ Done(i)
                   /\ UNCHANGED <<environment, immutable_stack, struct_defs, activations,
                                  output, bound_here, captured>>

\* Instruction::StoreThrough and Instruction::StoreThroughImmutable pop the
\* value, then the LValue, and write the value through, fatal on an immutable
\* cell or field; StoreThroughImmutable also adds the cell or field to the
\* parallel immutable set. Instruction::StoreThroughReactive(expr) pops the
\* LValue and writes the frozen LazyValue: the expression with, for each
\* captured name an immutable scope binds, the value bound now.
ExecStoreThrough ==
    \E i \in Fetchable :
        /\ i.op \in {"StoreThrough", "StoreThroughImmutable", "StoreThroughReactive"}
        /\ LET \* what is popped: the value (none for StoreThroughReactive), then the LValue
               depth == IF i.op = "StoreThroughReactive" THEN 1 ELSE 2
               mark  == i.op = "StoreThroughImmutable"
               t     == stack[Len(stack) - depth + 1].target
               v     == IF i.op = "StoreThroughReactive"
                        THEN [t |-> "LazyValue", expr |-> i.expr,
                              captures |->
                                [n \in { c \in { i.expr.captures[k] : k \in DOMAIN i.expr.captures } :
                                           immutable_exists(immutable_stack, c) }
                                   |-> find_immutable(immutable_stack, n).v]]
                        ELSE Peek(0)
           IN IF Len(stack) < depth THEN Panic(i, "stack underflow")
              ELSE IF stack[Len(stack) - depth + 1].t # "LValue" THEN Panic(i, "type")
              ELSE IF t.k = "ArrayElem"
              THEN IF t.array_id >= Len(array_heap) THEN Panic(i, "undefined")
              ELSE IF t.index \notin 0..(Len(array_heap[t.array_id + 1]) - 1)
              THEN Panic(i, "bounds")
              ELSE IF t.index \in array_immutables[t.array_id + 1] THEN Panic(i, "immutable")
              ELSE /\ array_heap' = [array_heap EXCEPT ![t.array_id + 1][t.index + 1] = v]
                   /\ array_immutables' =
                         IF mark
                         THEN [array_immutables EXCEPT ![t.array_id + 1] = @ \cup {t.index}]
                         ELSE array_immutables
                   /\ stack' = Popped(depth)
                   /\ Advance(i)
                   /\ UNCHANGED <<environment, immutable_stack, heap, struct_defs,
                                  activations, output, bound_here, captured, vec_heap,
                                  vec_immutables, buffer_heap>>
              ELSE IF t.k = "VecElem"
              THEN IF t.vec_id >= Len(vec_heap) THEN Panic(i, "undefined")
              ELSE IF t.index \notin 0..(Len(vec_heap[t.vec_id + 1]) - 1)
              THEN Panic(i, "bounds")
              ELSE IF t.index \in vec_immutables[t.vec_id + 1] THEN Panic(i, "immutable")
              ELSE /\ vec_heap' = [vec_heap EXCEPT ![t.vec_id + 1][t.index + 1] = v]
                   /\ vec_immutables' =
                         IF mark
                         THEN [vec_immutables EXCEPT ![t.vec_id + 1] = @ \cup {t.index}]
                         ELSE vec_immutables
                   /\ stack' = Popped(depth)
                   /\ Advance(i)
                   /\ UNCHANGED <<environment, immutable_stack, heap, struct_defs,
                                  activations, output, bound_here, captured, array_heap,
                                  array_immutables, buffer_heap>>
              ELSE IF t.struct_id >= Len(heap) THEN Panic(i, "undefined")
              ELSE IF t.field \in heap[t.struct_id + 1].immutables THEN Panic(i, "immutable")
              ELSE /\ heap' = [heap EXCEPT
                                 ![t.struct_id + 1].fields = Insert(@, t.field, v),
                                 ![t.struct_id + 1].immutables =
                                     IF mark THEN @ \cup {t.field} ELSE @]
                   /\ stack' = Popped(depth)
                   /\ Done(i)
                   /\ UNCHANGED <<environment, immutable_stack, struct_defs, activations,
                                  output, bound_here, captured>>

(***************************************************************************)
(* The driver: src/main.rs                                                 *)
(***************************************************************************)
\* a variant that emits no ArrayLValue before the character
emit_string_literal_no_lvalue(vec, value) ==
    vec
    \o << IPush(Len(value)), IOp("ArrayNew"), INamed("Store", "__cli_str") >>
    \o Flatten([k \in 1..Len(value) |->
                  << INamed("Load", "__cli_str"), IPush(k - 1),
                     [op |-> "PushChar", n |-> value[k]], IOp("StoreThrough") >>])
    \o << INamed("Load", "__cli_str") >>

\* fn emit_string_literal(code: &mut Vec<Instruction>, value: &str)
emit_string_literal(vec, value) ==
    vec
    \o << IPush(Len(value)), IOp("ArrayNew"), INamed("Store", "__cli_str") >>
    \o Flatten([k \in 1..Len(value) |->
                  << INamed("Load", "__cli_str"), IPush(k - 1), IOp("ArrayLValue"),
                     [op |-> "PushChar", n |-> value[k]], IOp("StoreThrough") >>])
    \o << INamed("Load", "__cli_str") >>


\* ---- the native functions of the buffers, the vecs and the files -------------
\* A native returns the error of its runtime_error ("" if none), its result and
\* the heaps it leaves, in the order of hvars.

\* VM::string_to_array
string_to_array(s) ==
    [err |-> "", value |-> [t |-> "ArrayRef", id |-> Len(array_heap)],
     h |-> << Append(array_heap, [k \in 1..Len(s) |-> [t |-> "Char", c |-> s[k]]]),
              Append(array_immutables, {}), vec_heap, vec_immutables, buffer_heap >>]

\* runtime_error inside a native: the process exits, the heaps are of no account
native_error(message) == [err |-> message, value |-> Integer(0), h |-> hvars]

\* VM::value_to_string: the text of an array or a vec of Chars
value_to_string(v) ==
    LET f == force(v)
        elems == IF f.t = "ArrayRef" THEN array_heap[f.id + 1] ELSE vec_heap[f.id + 1]
    IN IF f.t \notin {"ArrayRef", "VecRef"}
       THEN [err |-> "must be a string (array of chars)", s |-> <<>>]
       ELSE IF \E k \in 1..Len(elems) : force(elems[k]).t # "Char"
       THEN [err |-> "must be a string (array of chars)", s |-> <<>>]
       ELSE IF \E k \in 1..Len(elems) : ~is_scalar(force(elems[k]).c)
       THEN [err |-> "contains invalid char code", s |-> <<>>]
       ELSE [err |-> "", s |-> [k \in 1..Len(elems) |-> force(elems[k]).c]]

\* native_read; fs is what the file system answers for the path
native_read(args, fs) ==
    IF Len(args) # 1 THEN native_error("internal_file_read expects 1 argument")
    ELSE IF value_to_string(args[1]).err # ""
    THEN native_error(value_to_string(args[1]).err)
    ELSE IF ~fs.ok THEN native_error("internal_file_read failed")
    ELSE string_to_array(fs.contents)

\* a native that leaves the heaps as they are and returns n
native_integer(n) == [err |-> "", value |-> Integer(n), h |-> hvars]

\* native_write: the count of the characters written
native_write(args, fs) ==
    IF Len(args) # 2 THEN native_error("internal_file_write expects 2 arguments")
    ELSE IF value_to_string(args[1]).err # ""
    THEN native_error(value_to_string(args[1]).err)
    ELSE IF value_to_string(args[2]).err # ""
    THEN native_error(value_to_string(args[2]).err)
    ELSE IF ~fs.ok THEN native_error("internal_file_write failed")
    ELSE native_integer(Len(value_to_string(args[2]).s))

\* native_exists
native_exists(args, fs) ==
    IF Len(args) # 1 THEN native_error("internal_file_exists expects 1 argument")
    ELSE IF value_to_string(args[1]).err # ""
    THEN native_error(value_to_string(args[1]).err)
    ELSE native_integer(IF fs.ok THEN 1 ELSE 0)

\* native_remove
native_remove(args, fs) ==
    IF Len(args) # 1 THEN native_error("internal_file_remove expects 1 argument")
    ELSE IF value_to_string(args[1]).err # ""
    THEN native_error(value_to_string(args[1]).err)
    ELSE IF ~fs.ok THEN native_error("internal_file_remove failed")
    ELSE native_integer(1)

\* native_buf_write_file: the count of the characters of the buffer
native_buf_write_file(args, fs) ==
    IF Len(args) # 2 THEN native_error("internal_buf_write_file expects 2 arguments")
    ELSE IF force(args[1]).t # "BufferRef"
    THEN native_error("internal_buf_write_file expects buffer")
    ELSE IF value_to_string(args[2]).err # ""
    THEN native_error(value_to_string(args[2]).err)
    ELSE IF ~fs.ok THEN native_error("internal_buf_write_file failed")
    ELSE IF \E k \in 1..Len(buffer_heap[force(args[1]).id + 1]) :
                ~is_scalar(buffer_heap[force(args[1]).id + 1][k])
    THEN native_error("invalid char code in buffer")
    ELSE native_integer(Len(buffer_heap[force(args[1]).id + 1]))

\* native_buf_push_str: the characters of the string go to the end of the buffer
native_buf_push_str(args) ==
    IF Len(args) # 2 THEN native_error("internal_buf_push_str expects 2 arguments")
    ELSE IF force(args[1]).t # "BufferRef"
    THEN native_error("internal_buf_push_str expects buffer")
    ELSE IF force(args[2]).t # "ArrayRef"
    THEN native_error("internal_buf_push_str expects string")
    ELSE LET id == force(args[1]).id
             elems == array_heap[force(args[2]).id + 1]
         IN IF \E k \in 1..Len(elems) : force(elems[k]).t # "Char"
            THEN native_error("internal_buf_push_str expects string of chars")
            ELSE [err |-> "", value |-> [t |-> "BufferRef", id |-> id],
                  h |-> << array_heap, array_immutables, vec_heap, vec_immutables,
                           [buffer_heap EXCEPT ![id + 1] =
                               @ \o [k \in 1..Len(elems) |-> force(elems[k]).c]] >>]

\* native_buf_new; as_usize_nonneg wants a forced Integer that is not negative
native_buf_new(args) ==
    IF Len(args) # 1 THEN native_error("internal_buf_new expects 1 argument")
    ELSE IF force(args[1]).t # "Integer" THEN native_error("internal_buf_new capacity")
    ELSE IF force(args[1]).n < 0 THEN native_error("internal_buf_new capacity")
    ELSE [err |-> "", value |-> [t |-> "BufferRef", id |-> Len(buffer_heap)],
          h |-> << array_heap, array_immutables, vec_heap, vec_immutables,
                   Append(buffer_heap, <<>>) >>]

\* native_buf_push_char
native_buf_push_char(args) ==
    IF Len(args) # 2 THEN native_error("internal_buf_push_char expects 2 arguments")
    ELSE IF force(args[1]).t # "BufferRef"
    THEN native_error("internal_buf_push_char expects buffer")
    ELSE IF force(args[2]).t # "Char" THEN native_error("internal_buf_push_char expects char")
    ELSE LET id == force(args[1]).id IN
         [err |-> "", value |-> [t |-> "BufferRef", id |-> id],
          h |-> << array_heap, array_immutables, vec_heap, vec_immutables,
                   [buffer_heap EXCEPT ![id + 1] = Append(@, force(args[2]).c)] >>]

\* native_buf_to_string, were the ID taken after the push
native_buf_to_string_id_after_push(args) ==
    IF Len(args) # 1 THEN native_error("internal_buf_to_string expects 1 argument")
    ELSE IF force(args[1]).t # "BufferRef"
    THEN native_error("internal_buf_to_string expects buffer")
    ELSE LET elems == buffer_heap[force(args[1]).id + 1] IN
         [err |-> "", value |-> [t |-> "ArrayRef", id |-> Len(array_heap) + 1],
          h |-> << Append(array_heap, [k \in 1..Len(elems) |-> [t |-> "Char", c |-> elems[k]]]),
                   Append(array_immutables, {}), vec_heap, vec_immutables, buffer_heap >>]

\* native_buf_to_string
native_buf_to_string(args) ==
    IF Len(args) # 1 THEN native_error("internal_buf_to_string expects 1 argument")
    ELSE IF force(args[1]).t # "BufferRef"
    THEN native_error("internal_buf_to_string expects buffer")
    ELSE LET elems == buffer_heap[force(args[1]).id + 1]
             arr_id == Len(array_heap)
         IN [err |-> "", value |-> [t |-> "ArrayRef", id |-> arr_id],
             h |-> << Append(array_heap,
                             [k \in 1..Len(elems) |-> [t |-> "Char", c |-> elems[k]]]),
                      Append(array_immutables, {}), vec_heap, vec_immutables, buffer_heap >>]

\* native_vec_new
native_vec_new(args) ==
    IF Len(args) # 1 THEN native_error("internal_vec_new expects 1 argument")
    ELSE IF force(args[1]).t # "Integer" THEN native_error("internal_vec_new capacity")
    ELSE IF force(args[1]).n < 0 THEN native_error("internal_vec_new capacity")
    ELSE [err |-> "", value |-> [t |-> "VecRef", id |-> Len(vec_heap)],
          h |-> << array_heap, array_immutables, Append(vec_heap, <<>>),
                   Append(vec_immutables, {}), buffer_heap >>]

\* native_vec_push: the value is stored as it is, not forced
native_vec_push(args) ==
    IF Len(args) # 2 THEN native_error("internal_vec_push expects 2 arguments")
    ELSE IF force(args[1]).t # "VecRef" THEN native_error("internal_vec_push expects vec")
    ELSE LET id == force(args[1]).id IN
         [err |-> "", value |-> [t |-> "VecRef", id |-> id],
          h |-> << array_heap, array_immutables,
                   [vec_heap EXCEPT ![id + 1] = Append(@, args[2])],
                   vec_immutables, buffer_heap >>]

\* a pop that leaves the immutable set as it is
native_vec_pop_keeps_mark(args) ==
    IF Len(args) # 1 THEN native_error("internal_vec_pop expects 1 argument")
    ELSE IF force(args[1]).t # "VecRef" THEN native_error("internal_vec_pop expects vec")
    ELSE LET id == force(args[1]).id
             elems == vec_heap[id + 1]
         IN IF elems = <<>> THEN native_error("internal_vec_pop on empty vec")
            ELSE [err |-> "", value |-> elems[Len(elems)],
                  h |-> << array_heap, array_immutables,
                           [vec_heap EXCEPT ![id + 1] = SubSeq(elems, 1, Len(elems) - 1)],
                           vec_immutables, buffer_heap >>]

\* native_vec_pop: the last element leaves the vec, and its index the immutable set
native_vec_pop(args) ==
    IF Len(args) # 1 THEN native_error("internal_vec_pop expects 1 argument")
    ELSE IF force(args[1]).t # "VecRef" THEN native_error("internal_vec_pop expects vec")
    ELSE LET id == force(args[1]).id
             elems == vec_heap[id + 1]
         IN IF elems = <<>> THEN native_error("internal_vec_pop on empty vec")
            ELSE [err |-> "", value |-> elems[Len(elems)],
                  h |-> << array_heap, array_immutables,
                           [vec_heap EXCEPT ![id + 1] = SubSeq(elems, 1, Len(elems) - 1)],
                           [vec_immutables EXCEPT ![id + 1] = @ \ {Len(elems) - 1}],
                           buffer_heap >>]

\* Instruction::Call(name, argc) on a native: pops argc arguments, the first
\* the deepest, and pushes the result; no frame.  The names of the natives are
\* bound in the global environment only (register_native), and no program here
\* rebinds them.
ExecCallNative ==
    \E i \in Fetchable,
       fs \in { [ok |-> FALSE, contents |-> <<>>], [ok |-> TRUE, contents |-> <<>>],
                [ok |-> TRUE, contents |-> <<104>>] } :
        /\ i.op = "Call"
        /\ i.name \in { "internal_file_read", "internal_file_write", "internal_file_exists",
                       "internal_file_remove", "internal_buf_new", "internal_buf_push_char",
                       "internal_buf_push_str", "internal_buf_to_string",
                       "internal_buf_write_file", "internal_vec_new", "internal_vec_push",
                       "internal_vec_pop" }
        /\ IF Len(stack) < i.argc THEN Panic(i, "stack underflow")
           ELSE LET args == SubSeq(stack, Len(stack) - i.argc + 1, Len(stack))
                    r == CASE i.name = "internal_file_read"     -> native_read(args, fs)
                           [] i.name = "internal_file_write"    -> native_write(args, fs)
                           [] i.name = "internal_file_exists"   -> native_exists(args, fs)
                           [] i.name = "internal_file_remove"   -> native_remove(args, fs)
                           [] i.name = "internal_buf_push_str"  -> native_buf_push_str(args)
                           [] i.name = "internal_buf_write_file" ->
                                 native_buf_write_file(args, fs)
                           [] i.name = "internal_buf_new"       -> native_buf_new(args)
                           [] i.name = "internal_buf_push_char" -> native_buf_push_char(args)
                           [] i.name = "internal_buf_to_string" -> native_buf_to_string(args)
                           [] i.name = "internal_vec_new"       -> native_vec_new(args)
                           [] i.name = "internal_vec_push"      -> native_vec_push(args)
                           [] i.name = "internal_vec_pop"       -> native_vec_pop(args)
                IN IF r.err # "" THEN Panic(i, r.err)
                   ELSE /\ stack' = Append(Popped(i.argc), r.value)
                        /\ array_heap' = r.h[1]
                        /\ array_immutables' = r.h[2]
                        /\ vec_heap' = r.h[3]
                        /\ vec_immutables' = r.h[4]
                        /\ buffer_heap' = r.h[5]
                        /\ Advance(i)
                        /\ UNCHANGED <<environment, immutable_stack, heap, struct_defs,
                                       activations, output, bound_here, captured>>

\* ---- the raw-terminal natives (unix) ------------------------------------------------
KEY_UP    == 1000
KEY_DOWN  == 1001
KEY_LEFT  == 1002
KEY_RIGHT == 1003

\* a native returns n to the program: the guard on the input state is dropped
InputReturn(t, fn, n) ==
    /\ tty' = [t EXCEPT !.lock = "free", !.ret = Some([fn |-> fn, code |-> n]),
                        !.calls = tty.calls + 1]
    /\ UNCHANGED <<svars, vmvars, cli, random_state, memory>>

\* vm.runtime_error(...) inside a native that holds the guard: the process calls
\* std::process::exit(1), which never returns, so the guard is never dropped
InputError(t, fn) ==
    /\ tty' = [t EXCEPT !.lock = "held", !.proc = "exiting", !.ret = None,
                        !.calls = tty.calls + 1]
    /\ UNCHANGED <<svars, vmvars, cli, random_state, memory>>

\* native_input_init and unix_input_init; fails is the first call to the
\* operating system that fails ("none": all succeed)
native_input_init ==
    \E fails \in {"none", "tcgetattr", "tcsetattr", "F_GETFL", "F_SETFL"} :
        /\ tty.proc = "running"
        /\ tty.calls < MaxCalls
        /\ IF tty.state.some THEN InputReturn(tty, "init", 0)
           ELSE IF fails = "tcgetattr" THEN InputError(tty, "init")
           ELSE IF fails = "tcsetattr" THEN InputError(tty, "init")
           ELSE IF fails = "F_GETFL" THEN InputError([tty EXCEPT !.mode = "raw"], "init")
           ELSE IF fails = "F_SETFL" THEN InputError([tty EXCEPT !.mode = "raw"], "init")
           ELSE InputReturn([tty EXCEPT !.mode = "raw", !.flags = "nonblock",
                                        !.state = Some([pending |-> <<>>]),
                                        !.registered = TRUE], "init", 0)

\* native_input_shutdown and unix_input_shutdown
native_input_shutdown ==
    \E fails \in {"none", "tcsetattr", "F_SETFL"} :
        /\ tty.proc = "running"
        /\ tty.calls < MaxCalls
        /\ IF ~tty.state.some THEN InputReturn(tty, "shutdown", 0)
           ELSE IF fails = "tcsetattr" THEN InputError([tty EXCEPT !.state = None], "shutdown")
           ELSE IF fails = "F_SETFL"
           THEN InputError([tty EXCEPT !.state = None, !.mode = "orig"], "shutdown")
           ELSE InputReturn([tty EXCEPT !.state = None, !.mode = "orig", !.flags = "orig"],
                            "shutdown", 0)

\* unix_input_poll once the reads have found nothing more: the key at the
\* front of state.pending, and what stays pending
decode_key(pending) ==
    IF pending = <<>> THEN [code |-> -1, pending |-> pending]
    ELSE IF pending[1] = 27
    THEN LET arrow == IF Len(pending) >= 3 /\ pending[2] = 91
                      THEN CASE pending[3] = 65 -> KEY_UP
                             [] pending[3] = 66 -> KEY_DOWN
                             [] pending[3] = 67 -> KEY_RIGHT
                             [] pending[3] = 68 -> KEY_LEFT
                             [] OTHER -> -1
                      ELSE -1
         IN IF arrow # -1 THEN [code |-> arrow, pending |-> SubSeq(pending, 4, Len(pending))]
            ELSE IF Len(pending) >= 2 /\ pending[2] = 91
            THEN [code |-> -1, pending |-> pending]
            ELSE [code |-> 27, pending |-> Tail(pending)]
    ELSE [code |-> pending[1], pending |-> Tail(pending)]

\* native_input_poll and unix_input_poll; the reads move what is readable on
\* fd 0 to state.pending until a read finds nothing (EAGAIN) or fails
native_input_poll ==
    \E fails \in {"none", "read"} :
        /\ tty.proc = "running"
        /\ tty.calls < MaxCalls
        /\ IF ~tty.state.some THEN InputError(tty, "poll")
           ELSE IF fails = "read" THEN InputError(tty, "poll")
           ELSE LET key == decode_key(tty.state.v.pending \o tty.readable) IN
                InputReturn([tty EXCEPT !.readable = <<>>,
                                        !.state = Some([pending |-> key.pending])],
                            "poll", key.code)

\* the calls of internal_input_poll of a program that polls in a loop, beyond
\* the MaxCalls calls that are counted; of these only the parity is kept
PollLoop ==
    \E fails \in {"none", "read"} :
        /\ tty.proc = "running"
        /\ tty.calls = MaxCalls
        /\ tty.state.some
        /\ IF fails = "read"
           THEN tty' = [tty EXCEPT !.lock = "held", !.proc = "exiting", !.ret = None]
           ELSE LET key == decode_key(tty.state.v.pending \o tty.readable) IN
                tty' = [tty EXCEPT !.readable = <<>>,
                                   !.state = Some([pending |-> key.pending]),
                                   !.ret = Some([fn |-> "poll", code |-> key.code]),
                                   !.parity = 1 - @]
        /\ UNCHANGED <<svars, vmvars, cli, random_state, memory>>

\* unix_suspend_raw_input: with an input state, the terminal is given its
\* original settings and flags; what tcsetattr and fcntl return is not looked at
unix_suspend_raw_input(t, fails) ==
    IF ~t.state.some THEN t
    ELSE [t EXCEPT !.mode  = IF fails = "suspend tcsetattr" THEN @ ELSE "orig",
                   !.flags = IF fails = "suspend F_SETFL" THEN @ ELSE "orig"]

\* unix_restore_raw_input(restore): if unix_suspend_raw_input found an input
\* state, the terminal is given the raw settings and flags; what tcsetattr and
\* fcntl return is not looked at
unix_restore_raw_input(t, fails) ==
    IF ~t.state.some THEN t
    ELSE [t EXCEPT !.mode  = IF fails = "restore tcsetattr" THEN @ ELSE "raw",
                   !.flags = IF fails = "restore F_SETFL" THEN @ ELSE "nonblock"]

\* native_input_readline: the raw mode is suspended, a line is read from
\* stdin (here: what is readable on fd 0, the line's end excluded), the raw
\* mode is restored, and the line is returned as an array of Chars; fails is
\* the one call to the operating system that fails ("none": all succeed)
native_input_readline ==
    \E fails \in {"none", "suspend tcsetattr", "suspend F_SETFL", "read_line",
                   "restore tcsetattr", "restore F_SETFL"} :
        /\ tty.proc = "running"
        /\ tty.calls < MaxCalls
        /\ LET suspended == unix_suspend_raw_input(tty, fails) IN
           IF fails = "read_line"
           THEN /\ tty' = [suspended EXCEPT !.proc = "exiting", !.ret = None,
                                            !.calls = tty.calls + 1]
                /\ UNCHANGED hvars
           ELSE LET restored == unix_restore_raw_input(suspended, fails)
                    line == string_to_array(tty.readable)
                IN /\ tty' = [restored EXCEPT !.readable = <<>>,
                                              !.ret = Some([fn |-> "readline", code |-> 0]),
                                              !.calls = tty.calls + 1]
                   /\ array_heap' = line.h[1]
                   /\ array_immutables' = line.h[2]
                   /\ UNCHANGED <<vec_heap, vec_immutables, buffer_heap>>
        /\ UNCHANGED <<stack, environment, immutable_stack, heap, struct_defs, code, pointer,
                       labels, activations, status, error, instr, steps, output, family,
                       bound_here, captured, svars, cli, random_state, memory>>

\* the user types a key: its bytes become readable on fd 0
KeyPressed ==
    \E b \in Keys :
        /\ tty.proc = "running"
        /\ Len(tty.readable) + (IF tty.state.some THEN Len(tty.state.v.pending) ELSE 0)
               + Len(Concat(array_heap)) < MaxInput
        /\ tty' = [tty EXCEPT !.readable = Append(@, b)]
        /\ UNCHANGED <<svars, vmvars, cli, random_state, memory>>

\* the ways the process exits outside the input natives: run() returns and
\* main with it, or VM::runtime_error is called anywhere in the engine; both
\* end in exit(), which runs the exit hooks
ProcessExit ==
    /\ tty.proc = "running"
    /\ tty' = [tty EXCEPT !.proc = "exiting"]
    /\ UNCHANGED <<svars, vmvars, cli, random_state, memory>>

\* a signal whose default action ends the process (SIGINT, SIGTERM, SIGHUP):
\* no handler is installed, and exit hooks do not run
Signal ==
    /\ tty.proc = "running"
    /\ tty' = [tty EXCEPT !.proc = "killed"]
    /\ UNCHANGED <<svars, vmvars, cli, random_state, memory>>

\* exit() runs unix_atexit if unix_register_atexit has registered it:
\* unix_restore_state locks the input state and restores what it holds.
\* Locking a std Mutex the thread already holds deadlocks or panics (a panic
\* out of an extern "C" function aborts).
unix_atexit ==
    /\ tty.proc = "exiting"
    /\ IF ~tty.registered THEN tty' = [tty EXCEPT !.proc = "terminated"]
       ELSE IF tty.lock = "held"
       THEN \E outcome \in {"blocked", "aborted"} : tty' = [tty EXCEPT !.proc = outcome]
       ELSE IF tty.state.some
       THEN tty' = [tty EXCEPT !.state = None, !.mode = "orig", !.flags = "orig",
                               !.proc = "terminated"]
       ELSE tty' = [tty EXCEPT !.proc = "terminated"]
    /\ UNCHANGED <<svars, vmvars, cli, random_state, memory>>

\* ---- the driver (src/main.rs) -------------------------------------------------------
\* A command-line argument or a path: the text before the extension and the
\* extension ("" if none), as Path::extension and set_extension see it.
Word(stem, ext) == [stem |-> stem, ext |-> ext]

\* what the user can type after the program name
Words ==
    { Word("help", ""), Word("--help", ""), Word("-h", ""), Word("bootstrap", ""),
      Word("compile", ""), Word("compile-module", ""), Word("compile-expi", ""),
      Word("compile-expi-module", ""), Word("run", ""), Word("frobnicate", ""),
      Word("prog", ""), Word("prog", "rx"), Word("prog", "rxb") }

\* resolve_source_path
resolve_source_path(name) == IF name.ext = "" THEN [name EXCEPT !.ext = "rx"] ELSE name

\* output_path; arg is args.get(2)
output_path(input, arg) == IF arg.some THEN arg.v ELSE [input EXCEPT !.ext = "rxb"]

\* main: what it does with the command line, up to the call that takes over
\* (print_help and exit_error end the process; run_compiler_vm_entry and run
\* hand the program to the VM)
main(args) ==
    LET print_help == [op |-> "print_help", exit |-> 0]
        exit_error(msg) == [op |-> "exit_error", msg |-> msg, exit |-> 1]
        run_compiler_vm_entry(compiler_path, input_path, out_path, entry) ==
            [op |-> "run_compiler_vm_entry", compiler |-> compiler_path,
             input |-> input_path, output |-> out_path, entry |-> entry]
        stable == "project/bootstrap/stable/compiler.rxb"
        experimental == "project/bootstrap/experimental/compiler.rxb"
        get2 == IF Len(args) >= 3 THEN Some(args[3]) ELSE None
        compile_with(compiler, entry, usage) ==
            IF Len(args) < 2 \/ Len(args) > 3 THEN exit_error(usage)
            ELSE run_compiler_vm_entry(compiler, resolve_source_path(args[2]),
                                       output_path(resolve_source_path(args[2]), get2), entry)
    IN IF args = <<>> THEN print_help
       ELSE CASE args[1] \in {Word("help", ""), Word("--help", ""), Word("-h", "")} ->
                    print_help
              [] args[1] = Word("bootstrap", "") ->
                    IF Len(args) # 1 THEN exit_error("Usage: reactive bootstrap")
                    ELSE run_compiler_vm_entry(stable,
                             Word("project/bootstrap/experimental/compiler", "rx"),
                             Word("project/bootstrap/experimental/compiler", "rxb"),
                             "compile_file_module")
              [] args[1] = Word("compile", "") ->
                    compile_with(stable, "compile_file",
                                 "Usage: reactive compile <input.rx> [output.rxb]")
              [] args[1] = Word("compile-module", "") ->
                    compile_with(stable, "compile_file_module",
                                 "Usage: reactive compile-module <input.rx> [output.rxb]")
              [] args[1] = Word("compile-expi", "") ->
                    compile_with(experimental, "compile_file",
                                 "Usage: reactive compile-experimental <input.rx> [output.rxb]")
              [] args[1] = Word("compile-expi-module", "") ->
                    compile_with(experimental, "compile_file_module",
                                 "Usage: reactive compile-experimental <input.rx> [output.rxb]")
              [] args[1] = Word("run", "") ->
                    IF Len(args) # 2 THEN exit_error("Usage: reactive run <input.rxb>")
                    ELSE [op |-> "run", path |-> args[2]]
              [] OTHER -> exit_error("unknown command (try 'reactive help')")

\* the process is started with a command line
Start ==
    \E n \in 0..MaxArgs : \E args \in [1..n -> Words] :
        /\ cli.did = <<>>
        /\ cli' = [args |-> args, did |-> << main(args) >>]
        /\ UNCHANGED <<svars, vmvars, tty, random_state, memory>>

\* ---- labels and jumps --------------------------------------------------------------
\* Instruction::Label(_) => {}
DoLabel ==
    \E i \in Fetchable :
        /\ i.op = "Label"
        /\ Done(i)
        /\ UNCHANGED <<stack, environment, immutable_stack, heap, struct_defs, activations,
                       output, bound_here, captured>>

\* self.pointer = self.labels[&l]; continue
Branch(i) ==
    IF i.name \notin DOMAIN labels THEN Panic(i, "no entry found for key")
    ELSE /\ pointer' = labels[i.name]
         /\ status' = "running"
         /\ error' = error
         /\ instr' = i
         /\ steps' = steps + 1
         /\ UNCHANGED <<environment, immutable_stack, heap, struct_defs, code, labels,
                        activations, output, family, bound_here, captured, svars, hvars,
                        pvars>>

\* Instruction::Jump(l)
DoJump ==
    \E i \in Fetchable :
        /\ i.op = "Jump"
        /\ Branch(i)
        /\ (status' = "running") => stack' = stack

\* Instruction::JumpIfZero(l)
DoJumpIfZero ==
    \E i \in Fetchable :
        /\ i.op = "JumpIfZero"
        /\ IF stack = <<>> THEN Panic(i, "stack underflow")
           ELSE LET n == as_int(Peek(0), immutable_stack, StackLimit)
                IN IF ~n.ok THEN Panic(i, n.err)
                   ELSE IF n.n = 0
                   THEN /\ Branch(i)
                        /\ (status' = "running") => stack' = Popped(1)
                   ELSE /\ stack' = Popped(1)
                        /\ Done(i)
                        /\ UNCHANGED <<environment, immutable_stack, heap, struct_defs,
                                       activations, output, bound_here, captured>>

\* the instructions of the programs that branch
JumpAlphabet ==
    { IPush(0), IPush(1),
      INamed("Label", "L"), INamed("Label", "M"),
      INamed("Jump", "L"), INamed("Jump", "M"),
      INamed("JumpIfZero", "L"), INamed("JumpIfZero", "M"),
      \* f() { statement compiled to Jump L; Push 1; Label L }
      IStoreFunction("f", <<>>,
          << Statement(<< INamed("Jump", "L"), IPush(1), INamed("Label", "L") >>) >>),
      ICall("f", 0),
      \* g() { statement compiled to Jump M }
      IStoreFunction("g", <<>>, << Statement(<< INamed("Jump", "M") >>) >>),
      ICall("g", 0) }

\* every program of up to MaxProgram of them
JumpPrograms == UNION { [1..k -> JumpAlphabet] : k \in 1..MaxProgram }

\* ---- iteration order --------------------------------------------------------------
\* the next HashMap iterator need not yield the keys in the order of the last
Rehash ==
    /\ family = "determ"
    /\ status = "running"
    /\ random_state' \in Hashers \ {random_state}
    /\ UNCHANGED <<svars, vmvars, tty, cli, memory>>

\* ---- programs over one vec -----------------------------------------------------
\* let a = internal_vec_new(0)
VecSetup == << IPush(0), ICall("internal_vec_new", 1), INamed("Store", "a") >>

\* the statements a program makes after it: a push of 7, a pop, a write of 1
\* that marks cell 0 immutable, a write of 2 to cell 0, and the read of a file
\* whose path is the empty string
VecStatements ==
    { << INamed("Load", "a"), IPush(7), ICall("internal_vec_push", 2), INamed("Store", "b") >>,
      << INamed("Load", "a"), ICall("internal_vec_pop", 1), INamed("Store", "b") >>,
      << INamed("Load", "a"), IPush(0), IOp("ArrayLValue"), IPush(1),
         IOp("StoreThroughImmutable") >>,
      << INamed("Load", "a"), IPush(0), IOp("ArrayLValue"), IPush(2), IOp("StoreThrough") >>,
      << IPush(0), IOp("ArrayNew"), ICall("internal_file_read", 1), INamed("Store", "c") >> }

\* every program of up to MaxVecOps statements
VecPrograms ==
    { VecSetup \o Concat(stmts) :
        stmts \in UNION { [1..k -> VecStatements] : k \in 1..MaxVecOps } }
\* the process before main has read its command line: the terminal in the
\* mode the user left it in, no input state (unix_state is Mutex::new(None)),
\* no exit hook registered
ProcessInit ==
    /\ tty = [mode |-> "orig", flags |-> "orig", state |-> None, lock |-> "free",
              registered |-> FALSE, readable |-> <<>>, proc |-> "running", ret |-> None,
              calls |-> 0, parity |-> 0]
    /\ cli = [args |-> <<>>, did |-> <<>>]

(***************************************************************************)
(* Specifications                                                          *)
(***************************************************************************)
NoResult == [ok |-> FALSE, msg |-> "not run", hasLine |-> FALSE, line |-> 0]

SerInit ==
    /\ sinput \in Inputs
    /\ stext = <<>>
    /\ sresult = NoResult
    /\ spc = "start"
    \* no machine has been constructed
    /\ stack = <<>>
    /\ environment = EmptyMap
    /\ immutable_stack = <<>>
    /\ heap = <<>>
    /\ struct_defs = EmptyMap
    /\ code = <<>>
    /\ pointer = 0
    /\ labels = build_labels(code)
    /\ activations = <<>>
    /\ status = "idle"
    /\ error = ""
    /\ instr = [op |-> "none"]
    /\ steps = 0
    /\ output = <<>>
    /\ family = "none"
    /\ bound_here = <<>>
    /\ captured = None
    /\ array_heap = <<>>
    /\ array_immutables = <<>>
    /\ vec_heap = <<>>
    /\ vec_immutables = <<>>
    /\ buffer_heap = <<>>
    /\ ProcessInit
    /\ random_state = CHOOSE s \in Hashers : TRUE
    /\ memory \in MemoryLimits

\* write_instructions_to_file: the vector is serialized
Serialize ==
    /\ spc = "start"
    /\ stext' = serialize_instructions(sinput)
    /\ spc' = "written"
    /\ UNCHANGED <<sinput, sresult, vmvars, pvars>>

\* the file is edited before it is read back: its header line is replaced
\* (or the whole file emptied)
EditHeader ==
    /\ spc = "written"
    /\ sinput \in { <<>>, <<[op |-> "Mul"]>>, <<[op |-> "Push", n |-> -5]>> }
    /\ \E h \in HeaderEdits, whole \in BOOLEAN :
         stext' = IF whole THEN h
                  ELSE h \o SubSeq(stext, Len(MAGIC) + 1, Len(stext))
    /\ spc' = "edited"
    /\ UNCHANGED <<sinput, sresult, vmvars, pvars>>

\* the file is edited before it is read back: a malformed line (for an unknown
\* Field kind, a StoreStruct line and its malformed Field line) is put after
\* line k of the file, with or without a line ending after the last line
EditBody ==
    /\ spc = "written"
    /\ sinput \in { <<>>, <<[op |-> "Mul"]>>,
                    <<[op |-> "Push", n |-> -5],
                      [op |-> "StoreFunction", name |-> <<102>>, params |-> <<>>,
                       code |-> <<[op |-> "Mul"]>>]>>,
                    <<[op |-> "StoreStruct", name |-> <<80>>,
                       fields |-> << [name |-> <<120>>,
                                      init |-> [kind |-> "Immutable",
                                                code |-> <<[op |-> "Mul"]>>]],
                                     [name |-> <<121>>, init |-> [kind |-> "None"]] >>],
                      [op |-> "Mul"]>> }
    /\ \E bad \in MalformedLines \cup BadOperandLines, ending \in BOOLEAN :
       LET lines == str_lines(stext) IN
       \E k \in 1..Len(lines) :
         stext' = JoinLines(SubSeq(lines, 1, k) \o bad \o SubSeq(lines, k + 1, Len(lines)))
                  \o (IF ending THEN <<LF>> ELSE <<>>)
    /\ spc' = "edited"
    /\ UNCHANGED <<sinput, sresult, vmvars, pvars>>

\* read_instructions_from_file: the text is deserialized
Deserialize ==
    /\ spc \in {"written", "edited"}
    /\ sresult' = deserialize_instructions(stext)
    /\ spc' = IF spc = "written" THEN "read" ELSE "read_edited"
    /\ UNCHANGED <<sinput, stext, vmvars, pvars>>

\* the vectors with nested blocks whose files are cut short or given another
\* header line
CountedInputs ==
    { <<[op |-> "Push", n |-> -5],
        [op |-> "StoreFunction", name |-> <<102>>, params |-> <<>>,
         code |-> <<[op |-> "Mul"]>>]>>,
      <<[op |-> "StoreFunction", name |-> <<102>>, params |-> <<>>,
         code |-> <<[op |-> "StoreFunction", name |-> <<103>>, params |-> <<>>,
                     code |-> <<[op |-> "Mul"]>>]>>],
        [op |-> "Mul"]>>,
      <<[op |-> "StoreStruct", name |-> <<80>>,
         fields |-> << [name |-> <<120>>,
                        init |-> [kind |-> "Immutable", code |-> <<[op |-> "Mul"]>>]],
                       [name |-> <<121>>, init |-> [kind |-> "None"]] >>],
        [op |-> "Mul"]>>,
      <<[op |-> "StoreThroughReactive",
         expr |-> [code |-> <<[op |-> "Mul"]>>, captures |-> <<>>]],
        [op |-> "Mul"]>> }

\* the counts a header line is given
Counts == { 0, 1, 2, UNSIGNED_MAX }

\* header lines that declare n nested instructions or fields:
\*   StoreFunction "f" 0 n      StoreStruct "S" n      StoreReactive "a" 0 n
\*   StoreThroughReactive 0 n   Field "x" Mutable n
CountHeaders ==
    LET sp == <<SPACE>>
        f  == quote_string(<<102>>)
    IN UNION { { ParseKw["StoreFunction"] \o sp \o f \o sp \o format_int(0) \o sp \o format_int(n),
                 ParseKw["StoreStruct"] \o sp \o f \o sp \o format_int(n),
                 ParseKw["StoreReactive"] \o sp \o f \o sp \o format_int(0) \o sp \o format_int(n),
                 ParseKw["StoreThroughReactive"] \o sp \o format_int(0) \o sp \o format_int(n),
                 ParseKw["Field"] \o sp \o f \o sp \o ParseKw["Mutable"] \o sp \o format_int(n) }
               : n \in Counts }

\* the file is cut short before it is read back: only its first k lines are left
Truncate ==
    /\ spc = "written"
    /\ sinput \in CountedInputs
    /\ LET lines == str_lines(stext) IN
       \E k \in 1..(Len(lines) - 1) : stext' = JoinLines(SubSeq(lines, 1, k))
    /\ spc' = "edited"
    /\ UNCHANGED <<sinput, sresult, vmvars, pvars>>

\* the file is edited before it is read back: a header line with a count of
\* its own is put after line k
EditCount ==
    /\ spc = "written"
    /\ sinput \in CountedInputs
    /\ \E hdr \in CountHeaders :
       LET lines == str_lines(stext) IN
       \E k \in 1..Len(lines) :
         stext' = JoinLines(SubSeq(lines, 1, k) \o <<hdr>> \o SubSeq(lines, k + 1, Len(lines)))
    /\ spc' = "edited"
    /\ UNCHANGED <<sinput, sresult, vmvars, pvars>>

SerSpec == SerInit /\ [][Serialize \/ EditHeader \/ EditBody \/ Deserialize]_vars

\* files whose nested counts and whose length do not agree
CountSpec == SerInit /\ [][Serialize \/ Truncate \/ EditCount \/ Deserialize]_vars

\* VM::new(code), the program drawn from the family
VMInit(fam) ==
    /\ stack = <<>>
    /\ environment = EmptyMap
    /\ immutable_stack = << EmptyMap >>
    /\ heap = <<>>
    /\ struct_defs = EmptyMap
    \* the program is read one instruction at a time (code = <<>>, see Fetchable)
    \* or, in the lvalue family, is a string literal the driver has emitted,
    \* or, in the jump and vec families, is given whole
    /\ code \in {<<>>} \cup
                IF fam = "lvalue"
                THEN { emit_string_literal(<<>>, value) :
                         value \in UNION { [1..k -> {104, 105}] : k \in 0..MaxString } }
                ELSE IF fam = "jump" THEN JumpPrograms
                ELSE IF fam = "vec" THEN VecPrograms
                ELSE {}
    /\ pointer = 0
    /\ labels = build_labels(code)
    /\ activations = <<>>
    /\ status = "running"
    /\ error = ""
    /\ instr = [op |-> "none"]
    /\ steps = 0
    /\ output = <<>>
    /\ family = fam
    /\ bound_here = << EmptyMap >>
    /\ captured = None
    /\ array_heap = <<>>
    /\ array_immutables = <<>>
    /\ vec_heap = <<>>
    /\ vec_immutables = <<>>
    /\ buffer_heap = <<>>
    /\ ProcessInit
    \* the iteration order is free in the family that compares the orders; the
    \* others run under one of them
    /\ random_state \in IF fam = "determ" THEN Hashers
                         ELSE { CHOOSE s \in Hashers : TRUE }
    \* no Vec is allocated with a capacity read from the input
    /\ memory = UNSIGNED_MAX
    \* no round trip is in progress
    /\ sinput = <<>>
    /\ stext = <<>>
    /\ sresult = NoResult
    /\ spc = "idle"

\* programs of immutable bindings, scopes and writes
ImmutableSpec ==
    /\ VMInit("immutable")
    /\ [][
         \/ DoPush \/ DoLoad \/ DoStore \/ DoStoreReactive \/ DoStoreImmutable
         \/ DoStoreIndex \/ DoStoreIndexReactive \/ DoStoreFunction \/ DoCall
         \/ BodyStatement \/ RunEnd \/ FunctionReturn
         \/ DoPushImmutableContext \/ DoPopImmutableContext \/ DoClearImmutableContext
         \/ Halt
       ]_vars

\* programs of a reactive binding over a captured name
ReactiveSpec ==
    /\ VMInit("reactive")
    /\ [][
         \/ DoPush \/ DoLoad \/ DoStore \/ DoStoreReactive \/ DoStoreImmutable \/ DoArrayNew
         \/ DoPushImmutableContext \/ DoPopImmutableContext \/ DoClearImmutableContext
         \/ Halt
       ]_vars

\* programs of struct instances with reactive fields
StructSpec ==
    /\ VMInit("struct")
    /\ [][
         \/ DoPush \/ DoLoad \/ DoStore \/ DoStoreImmutable \/ DoStoreStruct \/ DoNewStruct
         \/ DoFieldGet \/ DoFieldSet \/ Halt
       ]_vars

\* programs that write the fields of struct instances
FieldSpec ==
    /\ VMInit("field")
    /\ [][
         \/ DoPush \/ DoLoad \/ DoStore \/ DoStoreStruct \/ DoNewStruct
         \/ DoFieldGet \/ DoFieldSet \/ DoFieldSetReactive \/ Halt
       ]_vars

\* programs of arrays and indirect stores, and the driver's string literals
LValueSpec ==
    /\ VMInit("lvalue")
    /\ [][
         \/ DoPush \/ DoLoad \/ DoStore \/ ExecPushChar \/ ExecArrayNew \/ ExecArrayGet
         \/ ExecArrayLValue \/ ExecStoreThrough
         \/ DoStoreStruct \/ DoNewStruct \/ ExecFieldLValue \/ Halt
       ]_vars

\* programs that allocate in every heap: structs, arrays, buffers, vecs, file contents
AllocSpec ==
    /\ VMInit("alloc")
    /\ [][
         \/ DoPush \/ ExecPushChar \/ DoLoad \/ DoStore \/ ExecArrayNew
         \/ DoStoreStruct \/ DoNewStruct \/ ExecCallNative \/ Halt
       ]_vars

\* the raw-terminal natives, the keys typed, and the exits of the process
TermSpec ==
    /\ VMInit("term")
    /\ [][
         \/ native_input_init \/ native_input_poll \/ native_input_shutdown
         \/ KeyPressed \/ ProcessExit \/ Signal \/ unix_atexit
       ]_vars

\* programs that build strings in arrays, vecs and buffers and hand them to
\* the file and buffer natives
StringSpec ==
    /\ VMInit("string")
    /\ [][ DoPush \/ ExecPushChar \/ DoLoad \/ DoStore \/ ExecCallNative \/ Halt ]_vars

\* programs that define structs whose initialisers name other fields, and
\* instantiate them
InitSpec ==
    /\ VMInit("init")
    /\ [][
         \/ DoPush \/ DoLoad \/ DoStore \/ DoStoreImmutable \/ DoStoreStruct \/ DoNewStruct
         \/ DoFieldGet \/ DoPushImmutableContext \/ DoPopImmutableContext \/ Halt
       ]_vars

\* programs that call functions of zero to three parameters with arguments
\* that differ
BindSpec ==
    /\ VMInit("bind")
    /\ [][
         \/ DoPush \/ DoStoreFunction \/ DoCall \/ BodyStatement \/ RunEnd
         \/ FunctionReturn \/ Halt
       ]_vars

\* programs with labels, jumps and a function whose body has a label of its own
JumpSpec ==
    /\ VMInit("jump")
    /\ [][
         \/ DoPush \/ DoLabel \/ DoJump \/ DoJumpIfZero \/ DoStoreFunction \/ DoCall
         \/ BodyStatement \/ RunEnd \/ FunctionReturn \/ Halt
       ]_vars

\* programs over instances of a struct with several reactive fields, under
\* every iteration order of the field maps
DetermSpec ==
    /\ VMInit("determ")
    /\ [][
         \/ DoPush \/ DoLoad \/ DoStore \/ DoStoreStruct \/ DoNewStruct
         \/ DoFieldGet \/ DoFieldSet \/ DoOutput \/ Rehash \/ Halt
       ]_vars

\* programs that overwrite a reactive variable and a reactive field with a
\* number and then change what the reactive read
OverwriteSpec ==
    /\ VMInit("overwrite")
    /\ [][
         \/ DoPush \/ DoLoad \/ DoStore \/ DoStoreReactive \/ DoStoreStruct \/ DoNewStruct
         \/ DoFieldSet \/ DoFieldGet \/ Halt
       ]_vars

\* programs that read a reactive variable, a reactive array element and a
\* reactive field
ForcedSpec ==
    /\ VMInit("forced")
    /\ [][
         \/ DoPush \/ DoLoad \/ DoStore \/ DoStoreReactive \/ DoArrayNew \/ DoArrayGet
         \/ DoStoreIndexReactive \/ DoStoreStruct \/ DoNewStruct \/ DoFieldGet \/ Halt
       ]_vars

\* programs that make LValues and call the vec natives
EscapeSpec ==
    /\ VMInit("escape")
    /\ [][
         \/ DoPush \/ DoStoreStruct \/ DoNewStruct \/ ExecFieldLValue \/ ExecArrayNew
         \/ ExecArrayLValue \/ ExecCallNative \/ Halt
       ]_vars

\* programs that push, pop and write the cells of a vec and read files into arrays
VecSpec ==
    /\ VMInit("vec")
    /\ [][
         \/ DoPush \/ DoLoad \/ DoStore \/ ExecArrayNew \/ ExecArrayLValue
         \/ ExecStoreThrough \/ ExecCallNative \/ Halt
       ]_vars

\* the raw-terminal natives with the line input that suspends the raw mode
ReadlineSpec ==
    /\ VMInit("term")
    /\ [][
         \/ native_input_init \/ native_input_readline \/ native_input_poll
         \/ native_input_shutdown \/ KeyPressed \/ ProcessExit \/ unix_atexit
       ]_vars

\* a program that initialises the raw input and polls for ever, and the keys
\* typed meanwhile
PollNext == native_input_init \/ native_input_poll \/ PollLoop \/ KeyPressed

PollSpec == VMInit("term") /\ [][PollNext]_vars

\* the same program under its scheduling: its loop comes to the next call of
\* internal_input_poll, and a call whose read does not fail returns
PollFairSpec ==
    /\ PollSpec
    /\ WF_vars(native_input_poll /\ tty'.proc = "running")
    /\ WF_vars(PollLoop /\ tty'.proc = "running")

\* the driver and its command lines
DriverSpec ==
    /\ VMInit("driver")
    /\ [][Start]_vars

\* programs of function definitions and calls
CallSpec ==
    /\ VMInit("call")
    /\ [][
         \/ DoPush \/ DoLoad \/ DoStore \/ DoOutput \/ DoStoreFunction \/ DoCall
         \/ BodyStatement \/ RunEnd \/ FunctionReturn
         \/ DoPushImmutableContext \/ DoPopImmutableContext \/ Halt
       ]_vars

(***************************************************************************)
(* Properties                                                              *)
(***************************************************************************)
\* C1 (round trip): whenever the text serialize_instructions wrote for a
\* well-formed instruction vector has been read back unedited,
\* deserialize_instructions returned Ok with a vector equal to the one written.
C1_RoundTrip == spc = "read" => (sresult.ok /\ sresult.code = sinput)

\* a function with two parameters whose names hold a space, a double quote, a
\* backslash and a newline, and with a nested reactive in its body, has been
\* written and read back
C1_Witness ==
    /\ spc = "read"
    /\ Len(sinput) = 2
    /\ sinput[2].op = "StoreFunction"
    /\ sinput[2].params = << <<DQUOTE, BACKSLASH, LF>>, <<97, SPACE, 98>> >>
    /\ Len(sinput[2].code) = 1
    /\ sinput[2].code[1].op = "StoreReactive"
    /\ sresult.ok
    /\ sresult.code = sinput

\* C2 (header rejection): whenever deserialize_instructions has run on a text
\* whose first line is not exactly RXB1 (the empty text included), it returned
\* an error.
C2_HeaderRejection ==
    (/\ spc \in {"read", "read_edited"}
     /\ IF str_lines(stext) = <<>> THEN TRUE ELSE Head(str_lines(stext)) # MAGIC)
    => ~sresult.ok

C4_CaptureAtBind ==
    [][ (/\ captured.some
         /\ ~captured.immutable
         /\ Fetched(INamed("Load", "r")))
        => /\ status' = "running"
           /\ stack'[Len(stack')] = Integer(10 * captured.v) ]_vars

\* C5 (reactive freshness for immutable captures): when `a` was bound in an
\* immutable scope at the StoreReactive of r = a * 10, every later Load r
\* computes with the value `a` had then, whatever its kind, also after the
\* scope was popped or cleared and `a` was bound anew.
C5_FrozenImmutableCapture ==
    [][ (/\ captured.some
         /\ captured.immutable
         /\ Fetched(INamed("Load", "r")))
        => /\ status' = "running"
           /\ stack'[Len(stack')] = Integer(10 * captured.v) ]_vars

\* C6 (struct-field reactives see current sibling values): on an instance of
\* struct P { x = 3; y ::= x * 2 } every FieldGet y returns twice the integer
\* its field x holds at that moment (6 after initialisation, 20 after
\* FieldSet x := 10), and a FieldSet x writes the addressed instance only.
C6_SiblingFreshness ==
    [][ \A id \in 0..(Len(heap) - 1) :
          LET fields == heap[id + 1].fields IN
          (/\ DOMAIN fields = {"x", "y"}
           /\ fields["y"].t = "LazyInteger"
           /\ fields["y"].ast.k = "Operation"
           /\ fields["y"].ast.o = "Multiplication")
          => /\ (/\ Fetched(INamed("FieldGet", "y"))
                 /\ stack # <<>>
                 /\ stack[Len(stack)] = StructRef(id)
                 /\ fields["x"].t = "Integer")
                => /\ status' = "running"
                   /\ stack'[Len(stack')] = Integer(2 * fields["x"].n)
             /\ (/\ Fetched(INamed("FieldSet", "x"))
                 /\ Len(stack) >= 2
                 /\ stack[Len(stack) - 1] = StructRef(id)
                 /\ status' = "running")
                => /\ heap'[id + 1].fields["x"] = stack[Len(stack)]
                   /\ \A other \in 1..Len(heap) :
                         other # id + 1 => heap'[other] = heap[other] ]_vars

\* C7 (reactive cycle detection): a FieldGet y on an instance whose reactive
\* field y depends on itself, directly (y ::= y + 1) or through the reactive
\* field x (x ::= y, y ::= x), ends in the fatal error "reactive cycle".
C7_ReactiveCycle ==
    [][ \A id \in 0..(Len(heap) - 1) :
          LET fields == heap[id + 1].fields IN
          (/\ "y" \in DOMAIN fields
           /\ IF "x" \in DOMAIN fields
              THEN /\ fields["y"] = LazyInteger(Var("x"))
                   /\ fields["x"] = LazyInteger(Var("y"))
              ELSE fields["y"] = LazyInteger(Operation(Var("y"), "Addition", Number(1)))
           /\ Fetched(INamed("FieldGet", "y"))
           /\ stack # <<>>
           /\ stack[Len(stack)] = StructRef(id))
          => /\ status' = "panicked"
             /\ error' = "reactive cycle" ]_vars

\* C8 (parameter scope isolation): the parameter `n` of f is bound in at most
\* one immutable scope per active frame of f, so in none once every call has
\* returned, and a top-level Load n is then a fatal error.
C8_ParameterScopeIsolation ==
    [][ /\ Cardinality({ k \in 1..Len(immutable_stack') :
                           "n" \in DOMAIN immutable_stack'[k] }) <= Len(activations')
        /\ (Fetched(INamed("Load", "n")) /\ activations = <<>>)
              => status' = "panicked" ]_vars

\* C9 (local environment isolation): a Store executed while a function frame
\* is active leaves the global environment unchanged.
C9_LocalEnvironmentIsolation ==
    [][ (/\ activations # <<>>
         /\ \E name \in {"t", "a"} : Fetched(INamed("Store", name)))
        => environment' = environment ]_vars

\* C10 (call arity): a Call f argc on a function whose parameter list has a
\* length different from argc panics and no frame is entered.
C10_CallArity ==
    [][ \A argc \in 0..2 :
          (/\ Fetched(ICall("f", argc))
           /\ "f" \in DOMAIN environment
           /\ environment["f"].t = "Function"
           /\ Len(environment["f"].params) # argc)
          => /\ status' = "panicked"
             /\ activations' = activations ]_vars

\* C14 (StoreImmutable and the topmost scope): a StoreImmutable a that has a
\* value to pop panics exactly when the topmost immutable scope already binds
\* `a`; otherwise it binds `a` there to the popped value, also when a scope
\* below binds `a` and when ClearImmutableContext has emptied the topmost scope.
C14_StoreImmutableTopmost ==
    [][ (/\ Fetched(INamed("StoreImmutable", "a"))
         /\ stack # <<>>
         /\ immutable_stack # <<>>)
        => LET top == immutable_stack[Len(immutable_stack)] IN
           /\ (status' = "panicked") <=> ("a" \in DOMAIN top)
           /\ (status' = "panicked") => immutable_stack' = immutable_stack
           /\ (status' # "panicked")
                 => immutable_stack' =
                        [immutable_stack EXCEPT ![Len(immutable_stack)] =
                            ("a" :> stack[Len(stack)]) @@ top] ]_vars

\* `a` has been bound to 7 in a scope pushed above the scope that binds it to 1
C14_Witness ==
    /\ family = "immutable"
    /\ status = "running"
    /\ instr = INamed("StoreImmutable", "a")
    /\ Len(immutable_stack) = 2
    /\ "a" \in DOMAIN immutable_stack[1]
    /\ "a" \in DOMAIN immutable_stack[2]
    /\ immutable_stack[2]["a"] = Integer(7)
    /\ bound_here[2]["a"] = Integer(7)
    /\ immutable_stack[1]["a"] = Integer(1)

\* C16 (the immutable-scope stack is never empty): every step leaves at least
\* one scope on the immutable-scope stack, and a PopImmutableContext executed
\* with exactly one scope on it panics.
C16_ScopeStackNeverEmpty ==
    [][ /\ Len(immutable_stack') >= 1
        /\ (Fetched(IOp("PopImmutableContext")) /\ Len(immutable_stack) = 1)
              => status' = "panicked" ]_vars

\* C17 (immutable struct fields): NewStruct puts exactly the fields of kind
\* Immutable into the instance's immutables, which never change afterwards;
\* a FieldSet or FieldSetReactive on an instance panics exactly when the field
\* is in that instance's immutables and then leaves the heap unchanged, and
\* otherwise writes the field of that instance only.
C17_ImmutableFields ==
    [][ /\ (Fetched(INamed("NewStruct", "P")) /\ status' = "running")
              => heap'[Len(heap')].immutables =
                    { struct_defs["P"][k].name :
                        k \in { j \in 1..Len(struct_defs["P"]) :
                                  struct_defs["P"][j].init.kind = "Immutable" } }
        /\ \A id \in 1..Len(heap) : heap'[id].immutables = heap[id].immutables
        /\ \A f \in {"x", "y"} :
              (/\ Fetched(INamed("FieldSet", f))
               /\ Len(stack) >= 2
               /\ stack[Len(stack) - 1].t = "StructRef")
              => LET id == stack[Len(stack) - 1].id + 1 IN
                 /\ (status' = "panicked") <=> (f \in heap[id].immutables)
                 /\ (status' = "panicked") => heap' = heap
                 /\ (status' # "panicked")
                       => heap' = [heap EXCEPT ![id].fields =
                                      (f :> stack[Len(stack)]) @@ heap[id].fields]
        /\ (/\ Fetched(IReactive("FieldSetReactive", "x", Number(5)))
            /\ stack # <<>>
            /\ stack[Len(stack)].t = "StructRef")
              => LET id == stack[Len(stack)].id + 1 IN
                 /\ (status' = "panicked") <=> ("x" \in heap[id].immutables)
                 /\ (status' = "panicked") => heap' = heap
                 /\ (status' # "panicked")
                       => heap' = [heap EXCEPT ![id].fields =
                                      ("x" :> LazyInteger(Number(5))) @@ heap[id].fields] ]_vars

\* FieldSet x has panicked on an instance whose x is immutable and still 3,
\* while another instance of a later definition of P had its x written
C17_Witness ==
    /\ family = "field"
    /\ status = "panicked"
    /\ instr = INamed("FieldSet", "x")
    /\ Len(heap) = 2
    /\ Len(stack) = 2
    /\ \E a, b \in 1..2 :
          /\ stack[1] = StructRef(a - 1)
          /\ "x" \in heap[a].immutables
          /\ heap[a].fields["x"] = Integer(3)
          /\ "x" \notin heap[b].immutables
          /\ heap[b].fields["x"] = Integer(10)


\* C18 (line numbers): whenever deserialize_instructions has returned an error
\* on a text whose header line is RXB1 and whose first malformed line (a
\* single line of MalformedLines or BadOperandLines, so a non-numeric or
\* out-of-range operand of Push, PushChar or Call included) is line k of the
\* text, counting the header as line 1, the error carries the line number k.
C18_ErrorLineNumbers ==
    LET lines == str_lines(stext)
        isBad(l) == \E b \in MalformedLines \cup BadOperandLines : b = <<l>>
        at == { k \in 2..Len(lines) : isBad(lines[k]) }
    IN (/\ spc = "read_edited"
        /\ lines # <<>>
        /\ Head(lines) = MAGIC
        /\ at # {}
        /\ ~sresult.ok)
       => /\ sresult.hasLine
          /\ \A k \in at : (\A j \in at : k <= j) => sresult.line = k

\* C19 (fatal parse errors): whenever deserialize_instructions has run on a
\* text whose header line is RXB1 and in which a line after the header has an
\* unknown opcode, a wrong token count, an unterminated string, an invalid
\* escape, an unknown Cast type or an unknown Field kind, or is empty or
\* whitespace-only (between instructions or after the last one), it returned
\* an error and no instruction vector.
C19_MalformedLinesAreFatal ==
    LET lines == str_lines(stext) IN
    (/\ spc = "read_edited"
     /\ lines # <<>>
     /\ Head(lines) = MAGIC
     /\ \E k \in 2..Len(lines), b \in MalformedLines : lines[k] = b[Len(b)])
    => (~sresult.ok /\ "code" \notin DOMAIN sresult)

\* the text RXB1 / Push -5 / StoreFunction "f" 0 1 / Mul followed by an empty
\* line (two line endings after Mul) has been read: the error is "empty line"
C19_Witness ==
    /\ spc = "read_edited"
    /\ stext = serialize_instructions(sinput) \o <<LF, LF>>
    /\ Len(sinput) = 2
    /\ sinput[2].op = "StoreFunction"
    /\ str_lines(stext)[Len(str_lines(stext))] = <<>>
    /\ ~sresult.ok
    /\ sresult.msg = "empty line"

\* C15 (name resolution order): Load a and the callee lookup of Call f resolve
\* the name in the immutable scopes from the innermost to the outermost and
\* only then in the environment: Load a pushes the value so resolved, Call f
\* enters the body of the function so resolved, and both are fatal when the
\* name resolves to nothing (Call also when it resolves to no function).
C15_NameResolutionOrder ==
    [][ LET inScopes(n) == { k \in 1..Len(immutable_stack) : n \in DOMAIN immutable_stack[k] }
            innermost(n) == CHOOSE k \in inScopes(n) : \A j \in inScopes(n) : j <= k
            bound(n)     == inScopes(n) # {} \/ n \in DOMAIN environment
            resolve(n)   == IF inScopes(n) # {} THEN immutable_stack[innermost(n)][n]
                            ELSE environment[n]
        IN /\ Fetched(INamed("Load", "a")) =>
                IF bound("a") /\ resolve("a").t = "Integer"
                THEN status' = "running" /\ stack' = Append(stack, resolve("a"))
                ELSE bound("a") \/ status' = "panicked"
           /\ Fetched(ICall("f", 0)) =>
                IF bound("f") /\ resolve("f").t = "Function"
                THEN /\ status' = "running"
                     /\ Len(activations') = Len(activations) + 1
                     /\ activations'[Len(activations')].rest = resolve("f").body
                ELSE status' = "panicked" ]_vars

\* C20 (runtime error report): whenever a runtime error has ended the run
\* while the user functions f1 (outermost) .. fk (innermost) were active, the
\* last things the process did were to print the line Runtime error: <message>,
\* the stack trace header and the k function names with the most recent call
\* last (f1 first, fk last), and to exit with code 1.
C20_RuntimeErrorReport ==
    status = "panicked" =>
        LET k == Len(activations)
            n == Len(output)
        IN /\ n >= k + 3
           /\ output[n - k - 2] = [line |-> "Runtime error: {message}", message |-> error]
           /\ \A j \in 1..k :
                 output[n - k - 1 + j].function_name = activations[j].function_name
           /\ output[n] = [exit |-> 1]

C21_TerminalRestoration ==
    /\ tty.proc # "blocked"
    /\ tty.proc \in {"terminated", "killed", "aborted"} => tty.mode = "orig"

\* C22 -- internal_input_poll returns -1 only when no byte is pending (queued
\* in the input state or readable on fd 0); otherwise it returns 1000, 1001,
\* 1002, 1003 for ESC [ A, ESC [ B, ESC [ D, ESC [ C and the value of the first
\* byte in every other case.
C22_PollReportsInput ==
    [][ (tty'.calls = tty.calls + 1 /\ tty'.ret.some /\ tty'.ret.v.fn = "poll") =>
            LET avail == tty.state.v.pending \o tty.readable
                arrow == Len(avail) >= 3 /\ avail[1] = 27 /\ avail[2] = 91
                         /\ avail[3] \in {65, 66, 67, 68}
            IN avail # <<>> =>
                   /\ tty'.ret.v.code # -1
                   /\ tty'.ret.v.code =
                          IF arrow
                          THEN CASE avail[3] = 65 -> 1000
                                 [] avail[3] = 66 -> 1001
                                 [] avail[3] = 68 -> 1002
                                 [] avail[3] = 67 -> 1003
                          ELSE avail[1]
      ]_vars

\* C24 -- driver dispatch of a bare path: when the first argument is a path
\* ending in .rx the driver compiles it with the stable compiler and runs the
\* result, when it ends in .rxb the driver runs that bytecode; neither ends in
\* the unknown-command error.
C24_BarePathDispatch ==
    (cli.did # <<>> /\ cli.args # <<>>) =>
        LET first == cli.args[1]
            did == cli.did[1]
        IN /\ first.ext = "rx" =>
                  /\ did.op = "run_compiler_vm_entry"
                  /\ did.compiler = "project/bootstrap/stable/compiler.rxb"
                  /\ did.input = first
           /\ first.ext = "rxb" => (did.op = "run" /\ did.path = first)
           /\ first.ext \in {"rx", "rxb"} => did.op # "exit_error"

\* C25 -- every native that takes a path or a string accepts an ArrayRef of
\* Chars and a VecRef of Chars alike: for an array and a vec that hold the same
\* characters, internal_file_read, internal_file_write (path and contents),
\* internal_file_exists, internal_file_remove, internal_buf_write_file (path)
\* and internal_buf_push_str (string) give the same result, whatever the file
\* system answers.
C25_ArrayAndVecStrings ==
    \A a \in 1..Len(array_heap), v \in 1..Len(vec_heap) :
        LET arr == [t |-> "ArrayRef", id |-> a - 1]
            vec == [t |-> "VecRef", id |-> v - 1]
        IN (/\ value_to_string(arr).err = ""
            /\ value_to_string(vec) = value_to_string(arr)) =>
               /\ \A fs \in { [ok |-> FALSE, contents |-> <<>>], [ok |-> TRUE, contents |-> <<>>],
                               [ok |-> TRUE, contents |-> <<104>>] } :
                      /\ native_read(<<arr>>, fs) = native_read(<<vec>>, fs)
                      /\ native_exists(<<arr>>, fs) = native_exists(<<vec>>, fs)
                      /\ native_remove(<<arr>>, fs) = native_remove(<<vec>>, fs)
                      /\ native_write(<<arr, arr>>, fs) = native_write(<<vec, arr>>, fs)
                      /\ native_write(<<arr, arr>>, fs) = native_write(<<arr, vec>>, fs)
                      /\ \A b \in 1..Len(buffer_heap) :
                             native_buf_write_file(<<[t |-> "BufferRef", id |-> b - 1], arr>>, fs)
                             = native_buf_write_file(<<[t |-> "BufferRef", id |-> b - 1], vec>>, fs)
               /\ \A b \in 1..Len(buffer_heap) :
                      native_buf_push_str(<<[t |-> "BufferRef", id |-> b - 1], arr>>)
                      = native_buf_push_str(<<[t |-> "BufferRef", id |-> b - 1], vec>>)

\* C26 -- NewStruct runs the field initialisers in definition order: the
\* initialiser of a Mutable or Immutable field is evaluated in a scope, put on
\* top of the immutable scopes, that holds the fields before it with the values
\* they have just been given and none of the fields from it on; NewStruct fails
\* only if such an evaluation fails, and leaves the depth of the immutable
\* scopes as it was.
C26_InitialiserOrder ==
    [][ (steps' = steps + 1 /\ instr'.op = "NewStruct" /\ instr'.name \in DOMAIN struct_defs) =>
            LET fields == struct_defs[instr'.name]
                \* the fields from position k on, given the fields before it
                RECURSIVE expected(_, _)
                expected(k, sofar) ==
                    IF k > Len(fields) THEN [ok |-> TRUE, map |-> sofar]
                    ELSE IF fields[k].init.kind \in {"Mutable", "Immutable"}
                    THEN LET n == evaluate(fields[k].init.ast,
                                           Append(immutable_stack, sofar), StackLimit)
                         IN IF ~n.ok THEN [ok |-> FALSE, map |-> sofar]
                            ELSE expected(k + 1, Insert(sofar, fields[k].name, Integer(n.n)))
                    ELSE IF fields[k].init.kind = "None"
                    THEN expected(k + 1, Insert(sofar, fields[k].name, Integer(0)))
                    ELSE expected(k + 1,
                                  Insert(sofar, fields[k].name,
                                         LazyInteger(freeze_ast(fields[k].init.ast,
                                                                immutable_stack))))
            IN IF expected(1, EmptyMap).ok
               THEN /\ status' = "running"
                    /\ Len(heap') = Len(heap) + 1
                    /\ heap'[Len(heap')].fields = expected(1, EmptyMap).map
                    /\ Len(immutable_stack') = Len(immutable_stack)
               ELSE status' = "panicked" /\ heap' = heap
      ]_vars

\* C27 (argument binding order): every Call(name, argc) that enters a user
\* function with formals p1 .. pn binds, in the scope it pushes, the i-th
\* formal to the i-th pushed argument for every i up to the smaller of n and
\* argc (p1 to the argument deepest on the stack, the last one to the argument
\* on top), binds nothing else, and removes exactly the argc arguments.
C27_ArgumentBinding ==
    [][ (/\ steps' = steps + 1
         /\ instr'.op = "Call"
         /\ Len(activations') = Len(activations) + 1)
        => LET argc   == instr'.argc
               params == environment[instr'.name].params
               n      == IF Len(params) < argc THEN Len(params) ELSE argc
               scope  == immutable_stack'[Len(immutable_stack')]
           IN /\ Len(stack) >= argc
              /\ Len(immutable_stack') = Len(immutable_stack) + 1
              /\ DOMAIN scope = { params[k] : k \in 1..n }
              /\ \A k \in 1..n : scope[params[k]] = stack[Len(stack) - argc + k]
              /\ stack' = SubSeq(stack, 1, Len(stack) - argc)
      ]_vars

\* f(a, b, c) has just been entered by Call f 3 on the arguments 1, 2, 3
\* pushed in this order: a is 1, b is 2 and c is 3
C27_Witness ==
    /\ status = "running"
    /\ Len(activations) = 1
    /\ activations[1].argc = 3
    /\ activations[1].entry_stack = << Integer(1), Integer(2), Integer(3) >>
    /\ immutable_stack[Len(immutable_stack)] =
           Insert(Insert(Insert(EmptyMap, "a", Integer(1)), "b", Integer(2)), "c", Integer(3))
    /\ stack = <<>>

C29_ScopeStackBalance ==
    [][ /\ (/\ Len(activations') = Len(activations) - 1
            /\ status' = "running")
           => immutable_stack' = Top.entry_scopes
        /\ (/\ steps' = steps + 1
            /\ instr'.op \in {"Load", "FieldGet"}
            /\ status' = "running")
           => immutable_stack' = immutable_stack
      ]_vars

\* C30 (label resolution and branching): the label map in force always maps
\* exactly the names that have a Label in the current code vector, each to the
\* index of its last Label; a Jump(L), and a JumpIfZero(L) that pops the
\* integer 0, set the pointer to that index and is fatal when L has no Label;
\* JumpIfZero removes the integer it tests and goes to the next instruction
\* when it is not 0; Label changes nothing but the pointer; and every other
\* instruction (a call, when it returns) moves the pointer forward by one.
C30_LabelsAndJumps ==
    [][ LET at(vec, l)   == { k \in 1..Len(vec) : vec[k] = INamed("Label", l) }
            last(vec, l) == CHOOSE k \in at(vec, l) : \A j \in at(vec, l) : j <= k
            resolved(vec, map) ==
                /\ DOMAIN map = { l \in {"L", "M"} : at(vec, l) # {} }
                /\ \A l \in DOMAIN map : map[l] = last(vec, l) - 1
            taken(l) == IF at(code, l) # {}
                        THEN status' = "running" /\ pointer' = last(code, l) - 1
                        ELSE status' = "panicked"
        IN /\ resolved(code, labels) /\ resolved(code', labels')
           /\ (steps' = steps + 1) =>
                /\ instr' = code[pointer + 1]
                /\ CASE instr'.op = "Jump" ->
                          taken(instr'.name) /\ stack' = stack
                     [] instr'.op = "JumpIfZero" ->
                          IF stack = <<>> THEN status' = "panicked"
                          ELSE IF Peek(0) = Integer(0)
                          THEN /\ taken(instr'.name)
                               /\ (status' = "running") => stack' = Popped(1)
                          ELSE /\ status' = "running"
                               /\ pointer' = pointer + 1
                               /\ stack' = Popped(1)
                     [] instr'.op = "Label" ->
                          /\ pointer' = pointer + 1
                          /\ UNCHANGED <<stack, environment, immutable_stack, heap,
                                         struct_defs, activations, status, output, code,
                                         labels, hvars>>
                     [] instr'.op = "Call" -> TRUE
                     [] OTHER -> status' = "running" /\ pointer' = pointer + 1
           /\ (Len(activations') = Len(activations) - 1 /\ status' = "running") =>
                pointer' = pointer + 1 /\ code' = code
      ]_vars

\* in Jump L; Label L; Push 1; Label L the jump has been taken: the pointer is
\* at the second Label L
C30_Witness ==
    /\ code = << INamed("Jump", "L"), INamed("Label", "L"), IPush(1), INamed("Label", "L") >>
    /\ instr = INamed("Jump", "L")
    /\ status = "running"
    /\ steps = 1
    /\ pointer = 3
    /\ labels["L"] = 3

\* C23 (determinism): what a step does to the engine and to the output does
\* not depend on the order in which a HashMap is iterated: under every order
\* the scope that eval_reactive_field fills from an instance's fields is the
\* same map, every FieldGet of a reactive field that succeeds pushes the value
\* its expression has under each of the orders, every Println appends the
\* integer on top of the stack, and a change of the order alone changes
\* neither the engine state nor the output.
C23_Determinism ==
    [][ LET filled(fields, h) == insert_each(EmptyMap, fields, iter(fields, h))
            same(hp) == \A k \in 1..Len(hp) : \A h \in Hashers :
                            filled(hp[k].fields, h) = hp[k].fields
        IN /\ same(heap) /\ same(heap')
           /\ (random_state' # random_state) => UNCHANGED <<svars, vmvars>>
           /\ (/\ steps' = steps + 1
               /\ instr'.op = "FieldGet"
               /\ status' = "running"
               /\ heap[Peek(0).id + 1].fields[instr'.name].t = "LazyInteger")
              => LET fields == heap[Peek(0).id + 1].fields
                 IN \A h \in Hashers :
                       LET n == evaluate(fields[instr'.name].ast,
                                         Append(immutable_stack, filled(fields, h)),
                                         StackLimit)
                       IN n.ok /\ stack' = Append(Popped(1), Integer(n.n))
           /\ (/\ steps' = steps + 1
               /\ instr'.op = "Println"
               /\ status' = "running")
              => output' = Append(output, Peek(0).n)
      ]_vars

\* FieldGet z on a fresh instance of struct P { x = 3; y ::= x * 2; z ::= y + x }
\* has pushed 9 while the iterator yields z, y, x
C23_Witness ==
    /\ status = "running"
    /\ instr = INamed("FieldGet", "z")
    /\ random_state = << "z", "y", "x" >>
    /\ stack = << Integer(9) >>
    /\ Len(heap) = 1
    /\ heap[1].fields["y"].t = "LazyInteger"

C32_NestedBlockCounts ==
    LET RECURSIVE NodesOf(_), FieldNodes(_)
        NodesOf(instrs) ==
            IF instrs = <<>> THEN <<>>
            ELSE LET i == Head(instrs)
                     own == IF i.op = "StoreFunction" THEN <<Len(i.code)>> \o NodesOf(i.code)
                            ELSE IF i.op \in ReactiveNamedOps \cup {"StoreThroughReactive"}
                            THEN <<Len(i.expr.code)>> \o NodesOf(i.expr.code)
                            ELSE IF i.op = "StoreStruct"
                            THEN <<Len(i.fields)>> \o FieldNodes(i.fields)
                            ELSE <<0>>
                 IN own \o NodesOf(Tail(instrs))
        FieldNodes(fields) ==
            IF fields = <<>> THEN <<>>
            ELSE LET f == Head(fields).init
                     own == IF f.kind = "None" THEN <<0>>
                            ELSE IF f.kind = "Reactive"
                            THEN <<Len(f.expr.code)>> \o NodesOf(f.expr.code)
                            ELSE <<Len(f.code)>> \o NodesOf(f.code)
                 IN own \o FieldNodes(Tail(fields))
        Declared(line) ==
            LET t == tokenize_line(line).tokens
                last == parse_usize(t[Len(t)]).val
            IN IF OpOf(t[1]) \in ReactiveNamedOps \cup
                                  {"StoreThroughReactive", "StoreFunction", "StoreStruct"}
               THEN last
               ELSE IF t[1] = ParseKw["Field"] /\ t[3] # ParseKw["None"] THEN last
               ELSE 0
        RECURSIVE Owed(_, _)
        \* the declared instructions and fields still missing after the lines
        Owed(lines, owed) ==
            IF lines = <<>> THEN owed
            ELSE LET rest == IF owed > 0 THEN owed - 1 ELSE 0
                     d == Declared(Head(lines))
                 IN Owed(Tail(lines), IF d > UNSIGNED_MAX - rest THEN UNSIGNED_MAX
                                      ELSE rest + d)
        lines == Tail(str_lines(stext))
        orig  == Tail(str_lines(serialize_instructions(sinput)))
    IN (spc \in {"read", "read_edited"} /\ sinput \in CountedInputs)
       => /\ sresult.ok =>
               NodesOf(sresult.code) = [k \in 1..Len(lines) |-> Declared(lines[k])]
          /\ (/\ \/ \E k \in 0..Len(orig) : lines = SubSeq(orig, 1, k)
                 \/ \E hdr \in CountHeaders :
                        /\ OpOf(tokenize_line(hdr).tokens[1]) # ""
                        /\ lines = Append(orig, hdr)
              /\ Owed(lines, 0) > 0)
             => (~sresult.ok /\ sresult.msg = "unexpected end of bytecode")

\* C33 (overwriting a reactive with a concrete value): a Store or a FieldSet
\* that writes a non-lazy value over a variable or a field that held a lazy one
\* leaves exactly that value there; a variable changes only by a Store or a
\* StoreReactive of its name, and a field only by a FieldSet of its name on
\* its instance, so no write to what the former reactive read touches it; and
\* a Load of a variable or a FieldGet of a field that holds a non-lazy value
\* pushes the value it holds.
C33_OverwriteReactive ==
    [][ LET ran == steps' = steps + 1 /\ status' = "running"
            lazy(v) == v.t = "LazyInteger"
        IN /\ (/\ ran
               /\ instr'.op = "Store"
               /\ instr'.name \in DOMAIN environment
               /\ lazy(environment[instr'.name])
               /\ ~lazy(Peek(0)))
              => environment'[instr'.name] = Peek(0)
           /\ (/\ ran
               /\ instr'.op = "FieldSet"
               /\ instr'.name \in DOMAIN heap[Peek(1).id + 1].fields
               /\ lazy(heap[Peek(1).id + 1].fields[instr'.name])
               /\ ~lazy(Peek(0)))
              => heap'[Peek(1).id + 1].fields[instr'.name] = Peek(0)
           /\ \A n \in DOMAIN environment :
                 (n \notin DOMAIN environment' \/ environment'[n] # environment[n])
                 => /\ ran
                    /\ instr'.op \in {"Store", "StoreReactive"}
                    /\ instr'.name = n
           /\ \A k \in 1..Len(heap) : \A f \in DOMAIN heap[k].fields :
                 (\/ Len(heap') < k
                  \/ f \notin DOMAIN heap'[k].fields
                  \/ heap'[k].fields[f] # heap[k].fields[f])
                 => /\ ran
                    /\ instr'.op = "FieldSet"
                    /\ instr'.name = f
                    /\ Peek(1).id + 1 = k
           /\ (/\ steps' = steps + 1
               /\ instr'.op = "Load"
               /\ ~immutable_exists(immutable_stack, instr'.name)
               /\ instr'.name \in DOMAIN environment
               /\ ~lazy(environment[instr'.name]))
              => /\ status' = "running"
                 /\ stack' = Append(stack, environment[instr'.name])
           /\ (/\ steps' = steps + 1
               /\ instr'.op = "FieldGet"
               /\ stack # <<>>
               /\ Peek(0).t = "StructRef"
               /\ instr'.name \in DOMAIN heap[Peek(0).id + 1].fields
               /\ ~lazy(heap[Peek(0).id + 1].fields[instr'.name]))
              => /\ status' = "running"
                 /\ stack' = Append(Popped(1), heap[Peek(0).id + 1].fields[instr'.name])
      ]_vars

\* r was bound to a * 10 while a was 1, then overwritten by 7, a has changed
\* to 7, and a Load of r has pushed 7 and not 70
C33_Witness ==
    /\ status = "running"
    /\ instr = INamed("Load", "r")
    /\ captured.some /\ captured.v = 1
    /\ environment["a"] = Integer(7)
    /\ environment["r"] = Integer(7)
    /\ stack = << Integer(7) >>

C35_LValuesStayOnStack ==
    LET held(v) == v.t = "LValue" IN
    /\ \A n \in DOMAIN environment : ~held(environment[n])
    /\ \A s \in 1..Len(immutable_stack) :
          \A n \in DOMAIN immutable_stack[s] : ~held(immutable_stack[s][n])
    /\ \A a \in 1..Len(array_heap) : \A k \in 1..Len(array_heap[a]) : ~held(array_heap[a][k])
    /\ \A v \in 1..Len(vec_heap) : \A k \in 1..Len(vec_heap[v]) : ~held(vec_heap[v][k])
    /\ \A o \in 1..Len(heap) : \A f \in DOMAIN heap[o].fields : ~held(heap[o].fields[f])

\* C36 (Char values are Unicode scalars): every Char on the operand stack, in
\* the environment, in an array or in a vec holds a code point that is at most
\* 0x10FFFF and not a surrogate, and every PushChar of a vector that
\* deserialize_instructions returned has such an operand.
C36_CharsAreUnicodeScalars ==
    LET scalar(c) == c >= 0 /\ c <= 1114111 /\ ~(c >= 55296 /\ c <= 57343)
        valid(v) == v.t = "Char" => scalar(v.c)
    IN /\ \A k \in 1..Len(stack) : valid(stack[k])
       /\ \A n \in DOMAIN environment : valid(environment[n])
       /\ \A a \in 1..Len(array_heap) : \A k \in 1..Len(array_heap[a]) : valid(array_heap[a][k])
       /\ \A v \in 1..Len(vec_heap) : \A k \in 1..Len(vec_heap[v]) : valid(vec_heap[v][k])
       /\ (spc \in {"read", "read_edited"} /\ sresult.ok)
          => \A k \in 1..Len(sresult.code) :
                sresult.code[k].op = "PushChar" => scalar(sresult.code[k].n)

C38_ModeTracksState ==
    tty.proc = "running" =>
        IF tty.state.some THEN tty.mode = "raw" /\ tty.flags = "nonblock"
        ELSE tty.mode = "orig" /\ tty.flags = "orig"

\* C39 (internal_input_poll drains its pending queue): from every state on, if
\* the process keeps running with its input state initialised and no new input
\* becomes readable, repeated polling eventually leaves the pending queue empty.
C39_PollDrains ==
    []( [](tty.proc = "running" /\ tty.state.some /\ tty.readable = <<>>)
        => <>(tty.state.some /\ tty.state.v.pending = <<>>) )

\* C40 (the line cursor only moves forward): whenever a file has been read
\* whose lines after the header are l1 .. lm, next_line at the cursor k < m
\* returns line k + 1 and leaves the cursor at k + 1, and at the cursor m it
\* is the error "unexpected end of bytecode"; an instruction or a Field entry
\* parsed from the cursor k leaves the cursor further on, at most at m, and
\* has consumed one line for itself and one for every instruction and Field
\* entry nested in it; a vector that is returned stands for all m lines; and
\* an error names a line from 1 to m, whatever counts the headers declare.
C40_CursorForward ==
    LET RECURSIVE Size(_), FieldSize(_)
        Size(instrs) ==
            IF instrs = <<>> THEN 0
            ELSE LET i == Head(instrs)
                     nested == IF i.op = "StoreFunction" THEN Size(i.code)
                               ELSE IF i.op \in ReactiveNamedOps \cup {"StoreThroughReactive"}
                               THEN Size(i.expr.code)
                               ELSE IF i.op = "StoreStruct" THEN FieldSize(i.fields)
                               ELSE 0
                 IN 1 + nested + Size(Tail(instrs))
        FieldSize(fields) ==
            IF fields = <<>> THEN 0
            ELSE LET f == Head(fields).init
                     nested == IF f.kind = "None" THEN 0
                               ELSE IF f.kind = "Reactive" THEN Size(f.expr.code)
                               ELSE Size(f.code)
                 IN 1 + nested + FieldSize(Tail(fields))
        all   == str_lines(stext)
        lines == IF all = <<>> THEN <<>> ELSE Tail(all)
        at(k) == [index |-> k, last_line |-> k]
    IN spc \in {"read", "read_edited"}
       => /\ \A k \in 0..Len(lines) :
                LET nl == next_line(lines, at(k)) IN
                IF k < Len(lines)
                THEN nl.ok /\ nl.line = lines[k + 1] /\ nl.p.index = k + 1
                ELSE ~nl.ok /\ nl.msg = "unexpected end of bytecode"
          /\ \A k \in 0..(Len(lines) - 1) :
                /\ LET r == parse_instruction(lines, at(k)) IN
                   r.ok => /\ r.p.index > k
                           /\ r.p.index <= Len(lines)
                           /\ r.p.index - k = Size(<< r.instr >>)
                /\ LET f == parse_field(lines, at(k)) IN
                   f.ok => /\ f.p.index > k
                           /\ f.p.index <= Len(lines)
                           /\ f.p.index - k = FieldSize(<< f.field >>)
          /\ sresult.ok => Size(sresult.code) = Len(lines)
          /\ (~sresult.ok /\ sresult.hasLine)
             => sresult.line >= 1 /\ (lines # <<>> => sresult.line <= Len(lines))

\* a file whose last line is a header that declares 2147483647 nested
\* instructions has been read where every allocation is granted: the result
\* is the error of next_line at the end of the lines
C40_Witness ==
    LET lines == Tail(str_lines(stext)) IN
    /\ spc = "read_edited"
    /\ memory = UNSIGNED_MAX
    /\ Len(lines) >= 3
    /\ lines[Len(lines)] \in CountHeaders
    /\ LET t == tokenize_line(lines[Len(lines)]).tokens
       IN parse_usize(t[Len(t)]).val = UNSIGNED_MAX
    /\ ~sresult.ok
    /\ sresult.msg = "unexpected end of bytecode"
    /\ sresult.line = Len(lines)
====
